---- MODULE Spec2Model ----
(***************************************************************************)
(* A model of diff-leven: the structural diff of two serializable values.  *)
(*                                                                         *)
(* The repository holds the comparison code in two generations:            *)
(*   - src/src/diff.ts            isEqual, calculateSimilarity,            *)
(*                                findBestMatch, diffArrays, diffObjects,  *)
(*                                diffValues, diff  (the __old/__new form) *)
(*   - src/src/formatters.ts      class DiffEngine (the same, with an      *)
(*                                equal-length path for arrays and the     *)
(*                                ignoreKeys / ignoreValues options)       *)
(* and the typed entry points diffRaw / isDiff of src/unnamed/part_007,    *)
(* which call createDiff.                                                  *)
(*                                                                         *)
(* JavaScript values are records tagged by t:                              *)
(*   undefined, null, boolean, number, string (a sequence of characters),  *)
(*   array (a sequence of values), object (a sequence of [k, v] entries in *)
(*   insertion order, keys unique).                                        *)
(* Similarity scores are exact rationals <<numerator, denominator>>.       *)
(***************************************************************************)
EXTENDS Integers, Sequences, FiniteSets, TLC

VARIABLES oldValue, newValue, options, call, ret, history

vars == <<oldValue, newValue, options, call, ret, history>>

(***************************************************************************)
(* Values                                                                  *)
(***************************************************************************)
Undef == [t |-> "undefined"]
Null == [t |-> "null"]
Bool(b) == [t |-> "boolean", v |-> b]
Num(n) == [t |-> "number", v |-> n]
\* the number high * 2^53 + low, for the doubles beyond the checker's integers
Wide(high, low) == [t |-> "number", v |-> low, h |-> high]
Str(s) == [t |-> "string", v |-> s]
Arr(items) == [t |-> "array", v |-> items]
Obj(entries) == [t |-> "object", v |-> entries]
Entry(key, value) == [k |-> key, v |-> value]

\* typeof x
typeof(x) ==
  IF x.t \in {"null", "array", "object"} THEN "object" ELSE x.t

\* a test that takes no value for an array
isArrayNever(x) == FALSE

\* Array.isArray(x)
isArray(x) == x.t = "array"

\* x == null  (true of null and of undefined)
isNullish(x) == x.t \in {"null", "undefined"}

\* a === b.  Two containers are the same only as references; the model takes
\* every container to be a reference of its own, so that the structural code
\* below it is what decides.
StrictEquals(a, b) ==
  /\ a.t = b.t
  /\ a.t \in {"undefined", "null", "boolean", "number", "string"}
  /\ a = b

\* the entries of a container: an array's keys are its indices "0", "1", ...
EntriesOf(o) ==
  IF o.t = "array"
  THEN [i \in 1..Len(o.v) |-> [k |-> ToString(i - 1), v |-> o.v[i]]]
  ELSE o.v

\* Object.keys(o), in insertion order
ObjectKeys(o) == [i \in 1..Len(o.v) |-> EntriesOf(o)[i].k]

\* keys.includes(key)
includes(keys, key) == \E i \in 1..Len(keys) : keys[i] = key

\* key in o
hasKey(o, key) == \E i \in 1..Len(o.v) : EntriesOf(o)[i].k = key

\* o[key]: undefined when the key is missing
getKey(o, key) ==
  IF hasKey(o, key)
  THEN EntriesOf(o)[CHOOSE i \in 1..Len(o.v) : EntriesOf(o)[i].k = key].v
  ELSE Undef

Min2(a, b) == IF a < b THEN a ELSE b
Max2(a, b) == IF a > b THEN a ELSE b
\* the number itself in place of its absolute value
AbsSigned(a) == a

Abs(a) == IF a < 0 THEN 0 - a ELSE a

(***************************************************************************)
(* Rationals                                                               *)
(***************************************************************************)
Rat(n, d) == <<n, d>>
RatOne == Rat(1, 1)
RatZero == Rat(0, 1)
RatAdd(p, q) == Rat(p[1] * q[2] + q[1] * p[2], p[2] * q[2])
RatMul(p, q) == Rat(p[1] * q[1], p[2] * q[2])
RatGT(p, q) == p[1] * q[2] > q[1] * p[2]
RatEQ(p, q) == p[1] * q[2] = q[1] * p[2]
RatLE(p, q) == p[1] * q[2] <= q[1] * p[2]

(***************************************************************************)
(* The comparator                                                          *)
(***************************************************************************)
\* A comparator that looks no deeper than ===: what isEqual would be without
\* its recursion into arrays and objects.
isEqualShallow(a, b) == StrictEquals(a, b)

RECURSIVE isEqual(_, _)
isEqual(a, b) ==
  IF StrictEquals(a, b) THEN TRUE
  ELSE IF isNullish(a) \/ isNullish(b) THEN StrictEquals(a, b)
  ELSE IF typeof(a) # typeof(b) THEN FALSE
  ELSE IF typeof(a) # "object" THEN StrictEquals(a, b)
  ELSE IF isArray(a) # isArray(b) THEN FALSE
  ELSE IF isArray(a) /\ isArray(b) THEN
    IF Len(a.v) # Len(b.v) THEN FALSE
    ELSE \A i \in 1..Len(a.v) : isEqual(a.v[i], b.v[i])
  ELSE
    LET keysA == ObjectKeys(a)
        keysB == ObjectKeys(b)
    IN IF Len(keysA) # Len(keysB) THEN FALSE
       ELSE \A i \in 1..Len(keysA) :
              /\ includes(keysB, keysA[i])
              /\ isEqual(getKey(a, keysA[i]), getKey(b, keysA[i]))

\* the difference of the two lengths, a lower bound of the distance
lengthGap(a, b) == IF Len(a) > Len(b) THEN Len(a) - Len(b) ELSE Len(b) - Len(a)

\* leven(a, b): the Levenshtein distance of two strings (the npm package
\* leven, which diff.ts imports)
RECURSIVE leven(_, _)
leven(a, b) ==
  IF Len(a) = 0 THEN Len(b)
  ELSE IF Len(b) = 0 THEN Len(a)
  ELSE IF Head(a) = Head(b) THEN leven(Tail(a), Tail(b))
  ELSE 1 + Min2(leven(Tail(a), Tail(b)),
                Min2(leven(Tail(a), b), leven(a, Tail(b))))

\* the keys of a followed by the keys of b that a lacks: [...new Set([...keysA, ...keysB])]
UnionKeys(keysA, keysB) ==
  keysA \o SelectSeq(keysB, LAMBDA key : ~includes(keysA, key))

\* const name = v; F(name): the value of v, computed once, under a name
Bind(v, F(_)) == CHOOSE r \in {F(x) : x \in {v}} : TRUE

(***************************************************************************)
(* Double precision.  A number is kept in two parts, <<low, high>> for     *)
(* low + high * 2^53, so that the 53 bits of a double's significand are    *)
(* kept; the parts are integers of the checker, far below 2^53, so the     *)
(* sign of a sum of parts times powers of 2^53 is the sign of its leading  *)
(* part.                                                                   *)
(***************************************************************************)
\* the number is held in the checker's integers
Fits(x) == "h" \notin DOMAIN x

Parts(x) == <<x.v, IF Fits(x) THEN 0 ELSE x.h>>

\* the leading part that is not zero, or zero
Leading(p) ==
  IF \A i \in 1..Len(p) : p[i] = 0 THEN 0
  ELSE p[CHOOSE i \in 1..Len(p) :
           p[i] # 0 /\ \A j \in (i + 1)..Len(p) : p[j] = 0]

\* p + q and p - q
Plus(p, q) == <<p[1] + q[1], p[2] + q[2]>>
Minus(p, q) == <<p[1] - q[1], p[2] - q[2]>>

\* Math.abs(p)
Magnitude(p) == IF Leading(p) < 0 THEN Minus(<<0, 0>>, p) ELSE p

\* the number of the checker's integers that p is
IntOf(p) == CHOOSE n \in {p[1]} : p[2] = 0

\* 1 - distance / (max * 2) is the double 1.  The quotient rounds to a double
\* q <= 2^-54 exactly when distance / (max * 2) <= 2^-54 + 2^-107, the midpoint
\* between 2^-54 and the next double (the tie goes to 2^-54, whose
\* significand is even); and 1 - q rounds to 1 exactly when q <= 2^-54,
\* 1 - 2^-54 being the midpoint between 1 - 2^-53 and 1, whose significand
\* is even.  So the test is  distance * 2^106 <= max * (2^53 + 1), here the
\* sign of  max * (2^53 + 1) - distance * 2^106  in parts.
RoundsToOne(distance, max) ==
  Leading(<<max[1], max[1] + max[2], max[2] - distance[1], 0 - distance[2]>>) >= 0

\* the number branch of calculateSimilarity on doubles beyond the checker's
\* integers; numA - numB is exact for two doubles within a factor of two of
\* each other and for two integers up to 2^53
WideSimilarity(numA, numB) ==
  Bind(IF Leading(Minus(Magnitude(numA), Magnitude(numB))) < 0
       THEN Magnitude(numB) ELSE Magnitude(numA), LAMBDA max :
    Bind(Magnitude(Minus(numA, numB)), LAMBDA distance :
      IF Leading(max) = 0 THEN RatOne
      ELSE IF RoundsToOne(distance, max) THEN RatOne
      ELSE Rat(IntOf(Minus(Plus(max, max), distance)), IntOf(Plus(max, max)))))

RECURSIVE calculateSimilarity(_, _)
RECURSIVE SumArraySimilarity(_, _, _)
RECURSIVE SumObjectSimilarity(_, _, _, _)

\* the loop  for (i = 0; i < minLength; i++) totalSimilarity += ...
SumArraySimilarity(a, b, n) ==
  IF n = 0 THEN RatZero
  ELSE RatAdd(SumArraySimilarity(a, b, n - 1),
              calculateSimilarity(a.v[n], b.v[n]))

\* the loop  for (const key of allKeys) if (key in a && key in b) totalSimilarity += ...
SumObjectSimilarity(a, b, allKeys, n) ==
  IF n = 0 THEN RatZero
  ELSE LET rest == SumObjectSimilarity(a, b, allKeys, n - 1)
           key == allKeys[n]
       IN IF hasKey(a, key) /\ hasKey(b, key)
          THEN RatAdd(rest, calculateSimilarity(getKey(a, key), getKey(b, key)))
          ELSE rest

calculateSimilarity(a, b) ==
  IF StrictEquals(a, b) THEN RatOne
  ELSE IF isNullish(a) \/ isNullish(b) THEN RatZero
  ELSE IF typeof(a) # typeof(b) THEN RatZero
  ELSE IF typeof(a) = "string" THEN
    LET distance == leven(a.v, b.v)
        maxLength == Max2(Len(a.v), Len(b.v))
    IN IF maxLength = 0 THEN RatOne ELSE Rat(maxLength - distance, maxLength)
  ELSE IF typeof(a) = "number" THEN
    IF Fits(a) /\ Fits(b) THEN
      \* magnitudes below 2^31: the quotient is at least 2^-32, far from the
      \* last place of a double, and the checker's integers hold it exactly
      LET max == Max2(Abs(a.v), Abs(b.v))
      IN IF max = 0 THEN RatOne
         ELSE Rat(max * 2 - Abs(a.v - b.v), max * 2)
    ELSE WideSimilarity(Parts(a), Parts(b))
  ELSE IF typeof(a) = "boolean" THEN
    IF StrictEquals(a, b) THEN RatOne ELSE RatZero
  ELSE IF isArray(a) /\ isArray(b) THEN
    IF Len(a.v) = 0 /\ Len(b.v) = 0 THEN RatOne
    ELSE IF Len(a.v) = 0 \/ Len(b.v) = 0 THEN RatZero
    ELSE
      LET minLength == Min2(Len(a.v), Len(b.v))
          maxLength == Max2(Len(a.v), Len(b.v))
          totalSimilarity == SumArraySimilarity(a, b, minLength)
      IN RatMul(RatMul(totalSimilarity, Rat(1, maxLength)),
                Rat(minLength, maxLength))
  ELSE IF ~isArray(a) /\ ~isArray(b) THEN
    LET keysA == ObjectKeys(a)
        keysB == ObjectKeys(b)
    IN IF Len(keysA) = 0 /\ Len(keysB) = 0 THEN RatOne
       ELSE IF Len(keysA) = 0 \/ Len(keysB) = 0 THEN RatZero
       ELSE
         LET allKeys == UnionKeys(keysA, keysB)
             totalSimilarity == SumObjectSimilarity(a, b, allKeys, Len(allKeys))
             commonKeyCount ==
               Len(SelectSeq(keysA, LAMBDA key : includes(keysB, key)))
         IN RatMul(RatMul(totalSimilarity, Rat(1, Len(allKeys))),
                   Rat(commonKeyCount, Len(allKeys)))
  ELSE IF StrictEquals(a, b) THEN RatOne ELSE RatZero

\* the scan of findBestMatch over array[1..n] (0-based indices 0..n-1):
\* <<bestIndex, bestScore>>, the first index that attains the highest score
RECURSIVE BestUpTo(_, _, _)
BestUpTo(item, array, n) ==
  IF n = 1 THEN <<0, calculateSimilarity(item, array[1])>>
  ELSE LET best == BestUpTo(item, array, n - 1)
           score == calculateSimilarity(item, array[n])
       IN IF RatGT(score, best[2]) THEN <<n - 1, score>> ELSE best

\* findBestMatch(item, array) = [matchIndex, similarityScore], 0-based
findBestMatch(item, array) ==
  IF Len(array) = 0 THEN <<-1, RatZero>>
  ELSE BestUpTo(item, array, Len(array))

(***************************************************************************)
(* Options and results                                                     *)
(***************************************************************************)
\* { __old: o, __new: n }
DiffChange(o, n) == Obj(<<Entry("__old", o), Entry("__new", n)>>)

\* {}
EmptyObject == Obj(<<>>)

DefaultOptions ==
  [keysOnly |-> FALSE, ignoreValues |-> FALSE, full |-> FALSE,
   outputKeys |-> {}, ignoreKeys |-> {}, color |-> TRUE,
   withSimilarity |-> FALSE]

\* the score a match must exceed: similarity > 0.7
MatchThreshold == Rat(7, 10)

(***************************************************************************)
(* diff.ts: diffArrays, diffObjects, diffValues, diff                      *)
(***************************************************************************)
RECURSIVE diffValues(_, _, _)
RECURSIVE diffArrays(_, _, _)
RECURSIVE diffObjects(_, _, _)
RECURSIVE FirstPass(_, _, _, _)
RECURSIVE ObjectPass(_, _, _, _, _)

\* a first pass that lets an old item take a new index already claimed
RECURSIVE FirstPassReclaiming(_, _, _, _)
FirstPassReclaiming(oldArray, newArray, opts, n) ==
  IF n = 0 THEN [result |-> <<>>, matched |-> {}]
  ELSE
    LET prev == FirstPassReclaiming(oldArray, newArray, opts, n - 1)
        oldItem == oldArray[n]
        best == findBestMatch(oldItem, newArray)
    IN IF best[1] >= 0 /\ RatGT(best[2], MatchThreshold)
       THEN [result |-> Append(prev.result,
                               diffValues(oldItem, newArray[best[1] + 1], opts)),
             matched |-> prev.matched \cup {best[1]}]
       ELSE [result |-> Append(prev.result, DiffChange(oldItem, Undef)),
             matched |-> prev.matched]

\* the first loop of diffArrays after the old items 1..n:
\* [result: the entries pushed, matched: matchedIndices (0-based)]
FirstPass(oldArray, newArray, opts, n) ==
  IF n = 0 THEN [result |-> <<>>, matched |-> {}]
  ELSE
    LET prev == FirstPass(oldArray, newArray, opts, n - 1)
        oldItem == oldArray[n]
        best == findBestMatch(oldItem, newArray)
        bestMatchIndex == best[1]
        similarity == best[2]
    IN IF /\ bestMatchIndex >= 0
          /\ RatGT(similarity, MatchThreshold)
          /\ bestMatchIndex \notin prev.matched
       THEN [result |-> Append(prev.result,
                               diffValues(oldItem, newArray[bestMatchIndex + 1], opts)),
             matched |-> prev.matched \cup {bestMatchIndex}]
       ELSE [result |-> Append(prev.result, DiffChange(oldItem, Undef)),
             matched |-> prev.matched]

\* the second loop of diffArrays: one added entry per unmatched new index,
\* in ascending order
SecondPass(newArray, matched) ==
  LET unmatched == SelectSeq([j \in 1..Len(newArray) |-> j - 1],
                             LAMBDA j : j \notin matched)
  IN [i \in 1..Len(unmatched) |-> DiffChange(Undef, newArray[unmatched[i] + 1])]

\* diffArrays that writes the added entries before the entries of the old items
diffArraysAddedFirst(oldArray, newArray, opts) ==
  IF Len(oldArray.v) = 0 /\ Len(newArray.v) = 0 THEN Arr(<<>>)
  ELSE IF isEqual(oldArray, newArray) THEN Arr(oldArray.v)
  ELSE
    LET first == FirstPass(oldArray.v, newArray.v, opts, Len(oldArray.v))
    IN Arr(SecondPass(newArray.v, first.matched) \o first.result)

diffArrays(oldArray, newArray, opts) ==
  IF Len(oldArray.v) = 0 /\ Len(newArray.v) = 0 THEN Arr(<<>>)
  ELSE IF isEqual(oldArray, newArray) THEN Arr(oldArray.v)
  ELSE
    LET first == FirstPass(oldArray.v, newArray.v, opts, Len(oldArray.v))
    IN Arr(first.result \o SecondPass(newArray.v, first.matched))

\* the loop of diffObjects over allKeys[1..n]: the entries of result
ObjectPass(oldObj, newObj, opts, allKeys, n) ==
  IF n = 0 THEN <<>>
  ELSE
    LET result == ObjectPass(oldObj, newObj, opts, allKeys, n - 1)
        key == allKeys[n]
        old == getKey(oldObj, key)
        new == getKey(newObj, key)
    IN IF hasKey(oldObj, key) /\ hasKey(newObj, key) THEN
         IF opts.keysOnly THEN
           IF opts.full THEN Append(result, Entry(key, Null)) ELSE result
         ELSE IF ~isEqual(old, new) \/ opts.full \/ key \in opts.outputKeys
              THEN Append(result, Entry(key, diffValues(old, new, opts)))
              ELSE result
       ELSE IF hasKey(oldObj, key)
            THEN Append(result, Entry(key, DiffChange(old, Undef)))
            ELSE Append(result, Entry(key, DiffChange(Undef, new)))

diffObjects(oldObj, newObj, opts) ==
  LET allKeys == UnionKeys(ObjectKeys(oldObj), ObjectKeys(newObj))
  IN Obj(ObjectPass(oldObj, newObj, opts, allKeys, Len(allKeys)))

\* diffValues that takes null and undefined for equal (old == new), all else
\* as diffValues
diffValuesLoose(old, new, opts) ==
  IF isEqual(old, new) \/ (isNullish(old) /\ isNullish(new))
  THEN (IF opts.full THEN old ELSE Undef)
  ELSE IF isNullish(old) \/ isNullish(new) THEN DiffChange(old, new)
  ELSE IF typeof(old) # typeof(new) THEN DiffChange(old, new)
  ELSE IF typeof(old) = "string" THEN DiffChange(old, new)
  ELSE IF isArray(old) /\ isArray(new) THEN diffArrays(old, new, opts)
  ELSE IF typeof(old) = "object" /\ ~isArray(old) /\ ~isArray(new)
       THEN diffObjects(old, new, opts)
  ELSE DiffChange(old, new)

diffValues(old, new, opts) ==
  IF isEqual(old, new) THEN (IF opts.full THEN old ELSE Undef)
  ELSE IF isNullish(old) \/ isNullish(new) THEN DiffChange(old, new)
  ELSE IF typeof(old) # typeof(new) THEN DiffChange(old, new)
  ELSE IF typeof(old) = "string" THEN DiffChange(old, new)
  ELSE IF isArray(old) /\ isArray(new) THEN diffArrays(old, new, opts)
  ELSE IF typeof(old) = "object" /\ ~isArray(old) /\ ~isArray(new)
       THEN diffObjects(old, new, opts)
  ELSE DiffChange(old, new)

\* export function diff(oldValue, newValue, options)
diff(old, new, opts) ==
  LET result == diffValues(old, new, opts)
  IN IF result = Undef THEN EmptyObject ELSE result

(***************************************************************************)
(* formatters.ts: class DiffEngine                                         *)
(***************************************************************************)
RECURSIVE EngineDiffValues(_, _, _)
RECURSIVE EngineDiffArrays(_, _, _)
RECURSIVE EngineDiffObjects(_, _, _)
RECURSIVE EngineFirstPass(_, _, _, _)
RECURSIVE EngineObjectPass(_, _, _, _, _)

\* the equal-length path of DiffEngine.diffArrays: index by index
EngineSameLength(oldArray, newArray) ==
  [i \in 1..Len(oldArray) |->
     IF isEqual(oldArray[i], newArray[i])
     THEN oldArray[i]
     ELSE DiffChange(oldArray[i], newArray[i])]

EngineFirstPass(oldArray, newArray, opts, n) ==
  IF n = 0 THEN [result |-> <<>>, matched |-> {}]
  ELSE
    LET prev == EngineFirstPass(oldArray, newArray, opts, n - 1)
        oldItem == oldArray[n]
        best == findBestMatch(oldItem, newArray)
        bestMatchIndex == best[1]
        similarity == best[2]
    IN IF /\ bestMatchIndex >= 0
          /\ RatGT(similarity, MatchThreshold)
          /\ bestMatchIndex \notin prev.matched
       THEN [result |-> Append(prev.result,
                               EngineDiffValues(oldItem, newArray[bestMatchIndex + 1], opts)),
             matched |-> prev.matched \cup {bestMatchIndex}]
       ELSE [result |-> Append(prev.result, DiffChange(oldItem, Undef)),
             matched |-> prev.matched]

EngineDiffArrays(oldArray, newArray, opts) ==
  IF Len(oldArray.v) = 0 /\ Len(newArray.v) = 0 THEN Arr(<<>>)
  ELSE IF isEqual(oldArray, newArray) THEN Arr(oldArray.v)
  ELSE IF Len(oldArray.v) = Len(newArray.v)
       THEN Arr(EngineSameLength(oldArray.v, newArray.v))
  ELSE
    LET first == EngineFirstPass(oldArray.v, newArray.v, opts, Len(oldArray.v))
    IN Arr(first.result \o SecondPass(newArray.v, first.matched))

EngineObjectPass(oldObj, newObj, opts, allKeys, n) ==
  IF n = 0 THEN <<>>
  ELSE
    LET result == EngineObjectPass(oldObj, newObj, opts, allKeys, n - 1)
        key == allKeys[n]
        old == getKey(oldObj, key)
        new == getKey(newObj, key)
    IN IF key \in opts.ignoreKeys THEN result
       ELSE IF hasKey(oldObj, key) /\ hasKey(newObj, key) THEN
         IF opts.keysOnly \/ opts.ignoreValues THEN
           IF opts.full \/ key \in opts.outputKeys
           THEN Append(result, Entry(key, old))
           ELSE result
         ELSE IF ~isEqual(old, new)
              THEN Append(result, Entry(key, EngineDiffValues(old, new, opts)))
         ELSE IF opts.full \/ key \in opts.outputKeys
              THEN Append(result, Entry(key, old))
              ELSE result
       ELSE IF hasKey(oldObj, key)
            THEN Append(result, Entry(key, DiffChange(old, Undef)))
            ELSE Append(result, Entry(key, DiffChange(Undef, new)))

\* diffObjects without its keysOnly / ignoreValues branch: the values of the
\* keys present on both sides are always compared
EngineDiffObjectsByValue(oldObj, newObj, opts) ==
  LET allKeys == UnionKeys(ObjectKeys(oldObj), ObjectKeys(newObj))
  IN Obj(EngineObjectPass(oldObj, newObj,
                          [opts EXCEPT !.keysOnly = FALSE, !.ignoreValues = FALSE],
                          allKeys, Len(allKeys)))

EngineDiffObjects(oldObj, newObj, opts) ==
  LET allKeys == UnionKeys(ObjectKeys(oldObj), ObjectKeys(newObj))
  IN Obj(EngineObjectPass(oldObj, newObj, opts, allKeys, Len(allKeys)))

EngineDiffValues(old, new, opts) ==
  IF isEqual(old, new) THEN (IF opts.full THEN old ELSE Undef)
  ELSE IF isNullish(old) \/ isNullish(new) THEN DiffChange(old, new)
  ELSE IF typeof(old) # typeof(new) THEN DiffChange(old, new)
  ELSE IF typeof(old) = "string" THEN DiffChange(old, new)
  ELSE IF isArray(old) /\ isArray(new) THEN EngineDiffArrays(old, new, opts)
  ELSE IF typeof(old) = "object" /\ typeof(new) = "object"
       THEN EngineDiffObjects(old, new, opts)
  ELSE DiffChange(old, new)

\* DiffEngine.diff(oldValue, newValue, options)
EngineDiff(old, new, opts) ==
  LET result == EngineDiffValues(old, new, opts)
  IN IF result = Undef THEN EmptyObject ELSE result

(***************************************************************************)
(* createDiff: the typed diff tree of diffRaw (types.ts: DiffResult with   *)
(* type, path, oldValue, newValue, children, meta).  Its array alignment   *)
(* takes the match decisions of diffArrays above.                          *)
(***************************************************************************)
NoMeta == [levenDistance |-> -1, similarity |-> RatZero, has |-> FALSE, ignored |-> FALSE]
IgnoredMeta == [levenDistance |-> -1, similarity |-> RatZero, has |-> FALSE, ignored |-> TRUE]
StringMeta(a, b) ==
  [levenDistance |-> leven(a.v, b.v), similarity |-> calculateSimilarity(a, b),
   has |-> TRUE, ignored |-> FALSE]

\* a node without children (a primitive comparison, an added or removed value)
LeafNode(type, path, old, new, meta) ==
  [type |-> type, path |-> path, oldValue |-> old, newValue |-> new,
   leaf |-> TRUE, children |-> <<>>, meta |-> meta]

\* the node of an array or object comparison, its kind taken from the two
\* values and not from the children
ContainerNodeByValue(path, old, new, children) ==
  [type |-> IF isEqual(old, new) THEN "unchanged" ELSE "changed",
   path |-> path, oldValue |-> old, newValue |-> new,
   leaf |-> FALSE, children |-> children, meta |-> NoMeta]

\* the node of an array or object comparison
ContainerNode(path, old, new, children) ==
  [type |-> IF \E i \in 1..Len(children) : children[i].type # "unchanged"
            THEN "changed" ELSE "unchanged",
   path |-> path, oldValue |-> old, newValue |-> new,
   leaf |-> FALSE, children |-> children, meta |-> NoMeta]

isContainer(x) == x.t \in {"array", "object"}

\* keysOnly or ignoreValues: presence-only comparison
structureOnly(opts) == opts.keysOnly \/ opts.ignoreValues

RECURSIVE createDiff(_, _, _, _)
RECURSIVE compareMember(_, _, _, _)
RECURSIVE alignArrays(_, _, _, _)
RECURSIVE AlignFirstPass(_, _, _, _, _)
RECURSIVE compareKeys(_, _, _, _, _, _)

\* the first pass of the aligner after the old items 1..n:
\* [result: one node per old item, matched: the claimed new indices (0-based)]
AlignFirstPass(oldArray, newArray, opts, path, n) ==
  IF n = 0 THEN [result |-> <<>>, matched |-> {}]
  ELSE
    LET prev == AlignFirstPass(oldArray, newArray, opts, path, n - 1)
        oldItem == oldArray[n]
        best == findBestMatch(oldItem, newArray)
        at == Append(path, ToString(n - 1))
    IN IF /\ best[1] >= 0
          /\ RatGT(best[2], MatchThreshold)
          /\ best[1] \notin prev.matched
       THEN [result |-> Append(prev.result,
                               compareMember(oldItem, newArray[best[1] + 1], opts, at)),
             matched |-> prev.matched \cup {best[1]}]
       ELSE [result |-> Append(prev.result,
                               LeafNode("removed", at, oldItem, Undef, NoMeta)),
             matched |-> prev.matched]

\* the children of an array comparison
alignArrays(oldArray, newArray, opts, path) ==
  IF isEqual(Arr(oldArray), Arr(newArray))
  THEN [i \in 1..Len(oldArray) |->
          LeafNode("unchanged", Append(path, ToString(i - 1)),
                   oldArray[i], newArray[i], NoMeta)]
  ELSE IF Len(oldArray) = 0 \/ Len(newArray) = 0
  THEN [i \in 1..Len(oldArray) |->
          LeafNode("removed", Append(path, ToString(i - 1)), oldArray[i], Undef, NoMeta)]
       \o
       [j \in 1..Len(newArray) |->
          LeafNode("added", Append(path, ToString(j - 1)), Undef, newArray[j], NoMeta)]
  ELSE
    LET first == AlignFirstPass(oldArray, newArray, opts, path, Len(oldArray))
        unmatched == SelectSeq([j \in 1..Len(newArray) |-> j - 1],
                               LAMBDA j : j \notin first.matched)
    IN first.result \o
       [i \in 1..Len(unmatched) |->
          LeafNode("added", Append(path, ToString(unmatched[i])),
                   Undef, newArray[unmatched[i] + 1], NoMeta)]

\* the children of an object comparison, over allKeys[1..n]
compareKeys(oldObj, newObj, opts, path, allKeys, n) ==
  IF n = 0 THEN <<>>
  ELSE
    LET rest == compareKeys(oldObj, newObj, opts, path, allKeys, n - 1)
        key == allKeys[n]
        at == Append(path, key)
        old == getKey(oldObj, key)
        new == getKey(newObj, key)
    IN IF key \in opts.ignoreKeys THEN rest
       ELSE IF hasKey(oldObj, key) /\ hasKey(newObj, key) THEN
         LET child == compareMember(old, new, opts, at)
         IN IF child.type # "unchanged" \/ opts.full \/ key \in opts.outputKeys
            THEN Append(rest, child)
            ELSE rest
       ELSE IF hasKey(oldObj, key)
            THEN Append(rest, LeafNode("removed", at, old, Undef, NoMeta))
            ELSE Append(rest, LeafNode("added", at, Undef, new, NoMeta))

\* a matched key or element: under keysOnly / ignoreValues only the structure
\* of two containers of the same shape is compared
compareMember(old, new, opts, path) ==
  IF structureOnly(opts) /\ ~(isContainer(old) /\ old.t = new.t)
  THEN LeafNode("unchanged", path, old, new,
                IF isEqual(old, new) THEN NoMeta ELSE IgnoredMeta)
  ELSE createDiff(old, new, opts, path)

createDiff(old, new, opts, path) ==
  IF old = Undef /\ new = Undef THEN LeafNode("unchanged", path, old, new, NoMeta)
  ELSE IF old = Undef THEN LeafNode("added", path, Undef, new, NoMeta)
  ELSE IF new = Undef THEN LeafNode("removed", path, old, Undef, NoMeta)
  ELSE IF ~isContainer(old) /\ ~isContainer(new) THEN
    IF isEqual(old, new) THEN LeafNode("unchanged", path, old, new, NoMeta)
    ELSE LeafNode("changed", path, old, new,
                  IF old.t = "string" /\ new.t = "string"
                  THEN StringMeta(old, new) ELSE NoMeta)
  ELSE IF isArray(old) /\ isArray(new)
  THEN ContainerNode(path, old, new, alignArrays(old.v, new.v, opts, path))
  ELSE IF old.t = "object" /\ new.t = "object" THEN
    LET allKeys == UnionKeys(ObjectKeys(old), ObjectKeys(new))
    IN ContainerNode(path, old, new,
                     compareKeys(old, new, opts, path, allKeys, Len(allKeys)))
  ELSE LeafNode("changed", path, old, new, NoMeta)

\* part_007: diffRaw, isDiff
diffRaw(old, new, opts) == createDiff(old, new, opts, <<>>)

\* isDiff that also answers true for a root that holds children
isDiffOrRetained(old, new, opts) ==
  diffRaw(old, new, opts).type # "unchanged" \/ Len(diffRaw(old, new, opts).children) > 0

\* isDiff that answers from the tree the call before it has left
isDiffRemembered(old, new, opts) ==
  IF call = "diffRaw" THEN ret.type # "unchanged"
  ELSE diffRaw(old, new, opts).type # "unchanged"

isDiff(old, new, opts) == diffRaw(old, new, opts).type # "unchanged"

(***************************************************************************)
(* formatter.ts: the rendering of a typed diff tree.  A rendered string is *)
(* the sequence of its characters; an object key, an array index and an    *)
(* ANSI escape sequence each count as one element.                         *)
(***************************************************************************)
colors == [reset |-> "ESC[0m", red |-> "ESC[31m", green |-> "ESC[32m", gray |-> "ESC[90m"]

\* ' '.repeat(n)
Spaces(n) == [i \in 1..n |-> " "]

\* the decimal digits of an integer
RECURSIVE NumChars(_)
NumChars(n) ==
  IF n < 0 THEN <<"-">> \o NumChars(0 - n)
  ELSE IF n < 10 THEN <<(<<"0", "1", "2", "3", "4", "5", "6", "7", "8", "9">>)[n + 1]>>
  ELSE NumChars(n \div 10) \o NumChars(n % 10)

\* the concatenation of the strings parts[1..n], sep between two of them
RECURSIVE JoinUpTo(_, _, _)
JoinUpTo(parts, sep, n) ==
  IF n = 0 THEN <<>>
  ELSE IF n = 1 THEN parts[1]
  ELSE JoinUpTo(parts, sep, n - 1) \o sep \o parts[n]

Join(parts, sep) == JoinUpTo(parts, sep, Len(parts))

\* JSON.stringify(value, null, 2) below the indentation indent
RECURSIVE jsonStringify(_, _)
jsonStringify(value, indent) ==
  CASE value.t = "undefined" -> <<"n", "u", "l", "l">>
    [] value.t = "null" -> <<"n", "u", "l", "l">>
    [] value.t = "boolean" ->
         IF value.v THEN <<"t", "r", "u", "e">> ELSE <<"f", "a", "l", "s", "e">>
    [] value.t = "number" -> NumChars(value.v)
    [] value.t = "string" -> <<"\"">> \o value.v \o <<"\"">>
    [] value.t = "array" ->
         IF Len(value.v) = 0 THEN <<"[", "]">>
         ELSE <<"[", "\n">>
              \o Join([i \in 1..Len(value.v) |->
                         Spaces(indent + 2) \o jsonStringify(value.v[i], indent + 2)],
                      <<",", "\n">>)
              \o <<"\n">> \o Spaces(indent) \o <<"]">>
    [] value.t = "object" ->
         LET props == SelectSeq(value.v, LAMBDA e : e.v.t # "undefined")
         IN IF Len(props) = 0 THEN <<"{", "}">>
            ELSE <<"{", "\n">>
                 \o Join([i \in 1..Len(props) |->
                            Spaces(indent + 2) \o <<"\"", props[i].k, "\"", ":", " ">>
                            \o jsonStringify(props[i].v, indent + 2)],
                         <<",", "\n">>)
                 \o <<"\n">> \o Spaces(indent) \o <<"}">>

formatPrimitive(value) ==
  CASE value.t = "undefined" -> <<"u", "n", "d", "e", "f", "i", "n", "e", "d">>
    [] value.t = "null" -> <<"n", "u", "l", "l">>
    [] value.t = "string" -> <<"'">> \o value.v \o <<"'">>
    [] value.t = "number" -> NumChars(value.v)
    [] value.t = "boolean" ->
         IF value.v THEN <<"t", "r", "u", "e">> ELSE <<"f", "a", "l", "s", "e">>
    [] OTHER -> jsonStringify(value, 0)

getPrefix(type) ==
  CASE type = "added" -> "+"
    [] type = "removed" -> "-"
    [] type = "changed" -> "!"
    [] OTHER -> " "

\* useColor ? `${code}${text}${colors.reset}` : text
Paint(useColor, code, text) ==
  IF useColor THEN <<code>> \o text \o <<colors.reset>> ELSE text

\* Math.round(similarity * 100)
RoundPercent(similarity) == (200 * similarity[1] + similarity[2]) \div (2 * similarity[2])

\* ` (${similarity}% similar)`, gray when colored
SimilarityInfo(useColor, similarity) ==
  Paint(useColor, colors.gray,
        <<" ", "(">> \o NumChars(RoundPercent(similarity))
        \o <<"%", " ", "s", "i", "m", "i", "l", "a", "r", ")">>)

\* a value that counts as false in a condition
Falsy(x) ==
  \/ x.t \in {"undefined", "null"}
  \/ x = Bool(FALSE)
  \/ x = Num(0)
  \/ x = Str(<<>>)

\* child.path?.[child.path.length - 1] || ''
LastKey(node) == IF Len(node.path) = 0 THEN "" ELSE node.path[Len(node.path)]

\* `${key}: `, nothing for the empty key
KeyPrefix(key) == IF key = "" THEN <<>> ELSE <<key, ":", " ">>

hasChildren(node) == Len(node.children) > 0

\* String.prototype.trim
RECURSIVE TrimStart(_)
TrimStart(s) ==
  IF Len(s) > 0 /\ s[1] \in {" ", "\n"} THEN TrimStart(Tail(s)) ELSE s

RECURSIVE TrimEnd(_)
TrimEnd(s) ==
  IF Len(s) > 0 /\ s[Len(s)] \in {" ", "\n"} THEN TrimEnd(SubSeq(s, 1, Len(s) - 1)) ELSE s

trim(s) == TrimEnd(TrimStart(s))

endsWithNewline(s) == Len(s) > 0 /\ s[Len(s)] = "\n"

formatValue(node, useColor, withSimilarity) ==
  CASE node.type = "added" ->
         Paint(useColor, colors.green, <<"+", " ">> \o formatPrimitive(node.newValue))
    [] node.type = "removed" ->
         Paint(useColor, colors.red, <<"-", " ">> \o formatPrimitive(node.oldValue))
    [] node.type = "changed" ->
         LET similarityInfo ==
               IF /\ withSimilarity
                  /\ node.meta.has
                  /\ node.oldValue.t = "string"
                  /\ node.newValue.t = "string"
               THEN SimilarityInfo(useColor, node.meta.similarity)
               ELSE <<>>
         IN Paint(useColor, colors.green,
                  <<"+", " ">> \o formatPrimitive(node.newValue) \o similarityInfo)
            \o <<"\n">>
            \o Paint(useColor, colors.red, <<"-", " ">> \o formatPrimitive(node.oldValue))
    [] OTHER ->
         Paint(useColor, colors.gray,
               <<getPrefix(node.type), " ">>
               \o formatPrimitive(IF isNullish(node.newValue)
                                  THEN node.oldValue ELSE node.newValue))

\* the two lines in the other order: the old value first
renderOldThenNew(new, old, useColor, withSimilarity, indent, meta, key) ==
  indent
  \o Paint(useColor, colors.red, <<"-", " ">> \o KeyPrefix(key) \o formatPrimitive(old))
  \o <<"\n">>
  \o indent
  \o Paint(useColor, colors.green, <<"+", " ">> \o KeyPrefix(key) \o formatPrimitive(new))

renderChangedBlock(new, old, useColor, withSimilarity, indent, meta, key) ==
  LET similarityInfo ==
        IF withSimilarity /\ meta.has THEN SimilarityInfo(useColor, meta.similarity)
        ELSE <<>>
  IN indent
     \o Paint(useColor, colors.green,
              <<"+", " ">> \o KeyPrefix(key) \o formatPrimitive(new) \o similarityInfo)
     \o <<"\n">>
     \o indent
     \o Paint(useColor, colors.red, <<"-", " ">> \o KeyPrefix(key) \o formatPrimitive(old))

RECURSIVE formatArrayDiff(_, _, _)
RECURSIVE formatObjectDiff(_, _, _)
RECURSIVE ArrayItems(_, _, _, _)
RECURSIVE ObjectItems(_, _, _, _)

\* Array.isArray(child.newValue || child.oldValue)
\*   ? formatArrayDiff(child, options, indent + 2)
\*   : formatObjectDiff(child, options, indent + 2)
formatNested(child, opts, indent) ==
  IF isArray(IF Falsy(child.newValue) THEN child.oldValue ELSE child.newValue)
  THEN formatArrayDiff(child, opts, indent + 2)
  ELSE formatObjectDiff(child, opts, indent + 2)

\* one turn of the loop of formatArrayDiff: prev is [result, visibleItems]
\* before the child, the value is [result, visibleItems] after it
ArrayItem(prev, child, opts, indent) ==
  LET innerIndent == Spaces(indent + 2)
      separated == IF prev.visibleItems > 0
                   THEN prev.result \o <<",", "\n">> ELSE prev.result
  IN IF child.type = "unchanged" /\ ~opts.full /\ ~hasChildren(child) THEN prev
     ELSE IF hasChildren(child) THEN
       Bind(formatNested(child, opts, indent),
            LAMBDA nestedOutput :
              IF Len(trim(nestedOutput)) > 2
              THEN [result |-> separated \o innerIndent \o nestedOutput,
                    visibleItems |-> prev.visibleItems + 1]
              ELSE prev)
     ELSE
       [result |->
          separated \o
          CASE child.type = "added" ->
                 innerIndent \o Paint(opts.color, colors.green,
                                      <<"+", " ">> \o formatPrimitive(child.newValue))
            [] child.type = "removed" ->
                 innerIndent \o Paint(opts.color, colors.red,
                                      <<"-", " ">> \o formatPrimitive(child.oldValue))
            [] child.type = "unchanged" ->
                 innerIndent \o Paint(opts.color, colors.gray,
                   IF child.meta.ignored
                   THEN <<" ", " ">> \o (IF LastKey(child) = "" THEN <<>> ELSE <<LastKey(child)>>)
                   ELSE <<" ", " ">> \o formatPrimitive(child.newValue))
            [] child.type = "changed" ->
                 renderChangedBlock(child.newValue, child.oldValue, opts.color,
                                    opts.withSimilarity, innerIndent, child.meta, ""),
        visibleItems |-> prev.visibleItems + 1]

\* formatArrayDiff after the children 1..n: [result, visibleItems]
ArrayItems(node, opts, indent, n) ==
  IF n = 0 THEN [result |-> <<"[", "\n">>, visibleItems |-> 0]
  ELSE Bind(ArrayItems(node, opts, indent, n - 1),
            LAMBDA prev : ArrayItem(prev, node.children[n], opts, indent))

formatArrayDiff(node, opts, indent) ==
  Bind(ArrayItems(node, opts, indent, Len(node.children)),
       LAMBDA items :
         (IF items.visibleItems > 0 THEN items.result \o <<"\n">> ELSE items.result)
         \o Spaces(indent) \o <<"]">>)

\* the children formatObjectDiff displays
displayableChildren(node, opts) ==
  SelectSeq(node.children,
            LAMBDA child : \/ child.type # "unchanged"
                           \/ opts.full
                           \/ hasChildren(child)
                           \/ LastKey(child) \in opts.outputKeys)

\* what one turn of the loop of formatObjectDiff appends for the child, and
\* whether it counts as a visible item
ObjectItemText(child, opts, indent) ==
  LET key == LastKey(child)
      innerIndent == Spaces(indent + 2)
  IN IF hasChildren(child) THEN
       Bind(formatNested(child, opts, indent),
            LAMBDA nestedContent :
              IF Len(trim(nestedContent)) > 2
              THEN [text |-> innerIndent \o <<key, ":", " ">> \o nestedContent,
                    visible |-> 1]
              ELSE [text |-> <<>>, visible |-> 0])
     ELSE
       CASE child.type = "added" ->
              [text |-> innerIndent \o Paint(opts.color, colors.green,
                          <<"+", " ", key, ":", " ">> \o formatPrimitive(child.newValue)),
               visible |-> 1]
         [] child.type = "removed" ->
              [text |-> innerIndent \o Paint(opts.color, colors.red,
                          <<"-", " ", key, ":", " ">> \o formatPrimitive(child.oldValue)),
               visible |-> 1]
         [] child.type = "changed" ->
              [text |-> renderChangedBlock(child.newValue, child.oldValue, opts.color,
                                           opts.withSimilarity, innerIndent,
                                           child.meta, key),
               visible |-> 1]
         [] child.type = "unchanged" ->
              IF opts.full \/ key \in opts.outputKeys
              THEN [text |-> innerIndent \o Paint(opts.color, colors.gray,
                               IF child.meta.ignored
                               THEN <<" ", " ", key>>
                               ELSE <<" ", " ", key, ":", " ">>
                                    \o formatPrimitive(child.newValue)),
                    visible |-> 1]
              ELSE [text |-> <<>>, visible |-> 0]

\* the comma and the newline that close one turn of the loop
CloseItem(added, isLast) ==
  IF endsWithNewline(added) THEN added
  ELSE IF ~isLast THEN added \o <<",", "\n">>
  ELSE added \o <<"\n">>

\* one turn of the loop of formatObjectDiff
ObjectItem(prev, item, isLast) ==
  LET separated == IF prev.visibleItems > 0 /\ ~endsWithNewline(prev.result)
                   THEN prev.result \o <<",", "\n">> ELSE prev.result
  IN [result |-> CloseItem(separated \o item.text, isLast),
      visibleItems |-> prev.visibleItems + item.visible]

\* formatObjectDiff after the displayable children 1..n: [result, visibleItems]
ObjectItems(node, opts, indent, n) ==
  IF n = 0 THEN [result |-> <<"{", "\n">>, visibleItems |-> 0]
  ELSE
    Bind(ObjectItems(node, opts, indent, n - 1),
         LAMBDA prev :
           Bind(ObjectItemText(displayableChildren(node, opts)[n], opts, indent),
                LAMBDA item :
                  ObjectItem(prev, item, n = Len(displayableChildren(node, opts)))))

formatObjectDiff(node, opts, indent) ==
  Bind(ObjectItems(node, opts, indent, Len(displayableChildren(node, opts))),
       LAMBDA items :
         (IF items.visibleItems > 0 /\ ~endsWithNewline(items.result)
          THEN items.result \o <<"\n">> ELSE items.result)
         \o Spaces(indent) \o <<"}">>)

formatComplex(node, opts, indent) ==
  IF /\ node.type = "unchanged"
     /\ ~opts.full
     /\ \/ ~hasChildren(node)
        \/ typeof(node.oldValue) # "object" /\ typeof(node.newValue) # "object"
  THEN <<>>
  ELSE IF isArray(node.oldValue) \/ isArray(node.newValue)
       THEN formatArrayDiff(node, opts, indent)
       ELSE formatObjectDiff(node, opts, indent)

formatDiff(node, opts) ==
  IF node.type = "unchanged" /\ ~opts.full /\ ~hasChildren(node) THEN <<>>
  ELSE IF ~hasChildren(node) THEN formatValue(node, opts.color, opts.withSimilarity)
  ELSE formatComplex(node, opts, 0)

\* part_007: diff, the formatted diff string
diffFormatted(old, new, opts) ==
  Bind(diffRaw(old, new, opts), LAMBDA diffResult : formatDiff(diffResult, opts))

(***************************************************************************)
(* Inputs                                                                  *)
(***************************************************************************)
\* the longest array among the inputs
MaxArrLen == 2

\* sequences over S of length at most n
RECURSIVE SeqsUpTo(_, _)
SeqsUpTo(S, n) ==
  IF n = 0 THEN {<<>>}
  ELSE LET shorter == SeqsUpTo(S, n - 1)
       IN shorter \cup {Append(q, x) : q \in {r \in shorter : Len(r) = n - 1}, x \in S}

\* objects over at most two of the keys K, in either insertion order
ObjectsOver(K, S) ==
  {Obj(<<>>)}
  \cup {Obj(<<Entry(k, x)>>) : k \in K, x \in S}
  \cup {Obj(<<Entry(k[1], x), Entry(k[2], y)>>) :
          k \in {p \in K \X K : p[1] # p[2]}, x \in S, y \in S}

aaaa == Str(<<"a", "a", "a", "a">>)
aaab == Str(<<"a", "a", "a", "b">>)

\* a text of two lines
multiline == Str(<<"a", "\n", "b">>)

Primitives ==
  {Undef, Null, Bool(TRUE), Bool(FALSE), Num(0), Num(1), Num(2), Num(-2),
   Str(<<>>), Str(<<"a">>), aaaa, aaab, multiline}

Members == {Num(1), Num(2), Str(<<"a">>)}

FlatArrays == {Arr(q) : q \in SeqsUpTo(Members, MaxArrLen)}

FlatObjects == ObjectsOver({"a", "b"}, {Num(1), Num(2)})

Inner == {Arr(<<>>), Arr(<<Num(1)>>), Arr(<<Num(2)>>), Obj(<<>>),
          Obj(<<Entry("a", Num(1))>>), Obj(<<Entry("a", Num(2))>>),
          Obj(<<Entry("b", Num(1))>>)}

\* one key holding the same two elements in either order
Reordered ==
  {Obj(<<Entry("a", Arr(<<Num(1), Num(2)>>))>>), Obj(<<Entry("a", Arr(<<Num(2), Num(1)>>))>>)}

\* two close words as the value of a key and as the element of an array
Texts ==
  {Obj(<<Entry("a", aaaa)>>), Obj(<<Entry("a", aaab)>>), Arr(<<aaaa>>), Arr(<<aaab>>)}

NestedValues ==
  {Arr(<<c>>) : c \in Inner}
  \cup {Arr(<<Num(1), c>>) : c \in Inner}
  \cup {Obj(<<Entry("a", c)>>) : c \in Inner}
  \cup Reordered
  \cup Texts

\* the values compared under the default options
Values == Primitives \cup FlatArrays \cup FlatObjects \cup NestedValues

(***************************************************************************)
(* The library as a state machine: the two inputs and the options of a     *)
(* comparison, the entry point called last and what it returned.  Every    *)
(* entry point is a pure function of its arguments.                        *)
(***************************************************************************)
NoReturn == [t |-> "none"]

\* index.ts: diff -> diffImpl (diff.ts)
CallDiff ==
  /\ call' = "diff"
  /\ ret' = diff(oldValue, newValue, options)
  /\ UNCHANGED <<oldValue, newValue, options, history>>

\* index.ts: diff -> diffEngine.diff
CallEngineDiff ==
  /\ call' = "engineDiff"
  /\ ret' = EngineDiff(oldValue, newValue, options)
  /\ UNCHANGED <<oldValue, newValue, options, history>>

\* part_007: diffRaw
CallDiffRaw ==
  /\ call' = "diffRaw"
  /\ ret' = diffRaw(oldValue, newValue, options)
  /\ UNCHANGED <<oldValue, newValue, options, history>>

\* part_007: isDiff
CallIsDiff ==
  /\ call' = "isDiff"
  /\ ret' = isDiff(oldValue, newValue, options)
  /\ UNCHANGED <<oldValue, newValue, options, history>>

\* part_007: diff
CallDiffFormatted ==
  /\ call' = "diffFormatted"
  /\ ret' = diffFormatted(oldValue, newValue, options)
  /\ UNCHANGED <<oldValue, newValue, options, history>>

\* diff.ts: calculateSimilarity, called on its own
CallCalculateSimilarity ==
  /\ call' = "calculateSimilarity"
  /\ ret' = calculateSimilarity(oldValue, newValue)
  /\ UNCHANGED <<oldValue, newValue, options, history>>

\* diff.ts: isEqual, called on its own
CallIsEqual ==
  /\ call' = "isEqual"
  /\ ret' = isEqual(oldValue, newValue)
  /\ UNCHANGED <<oldValue, newValue, options, history>>

Next ==
  \/ CallDiff
  \/ CallEngineDiff
  \/ CallDiffRaw
  \/ CallIsDiff
  \/ CallDiffFormatted
  \/ CallCalculateSimilarity
  \/ CallIsEqual

Init ==
  /\ oldValue \in Values
  /\ newValue \in Values
  /\ options = DefaultOptions
  /\ call = "none"
  /\ ret = NoReturn
  /\ history = <<>>

Spec == Init /\ [][Next]_vars

(***************************************************************************)
(* Inputs of the comparisons made under options: objects over the keys a,  *)
(* b and p, where p is the key the callers ask to ignore.                  *)
(***************************************************************************)
Leaves == {Num(1), Num(5)}

KeyedObjects ==
  {Obj(<<>>), Obj(<<Entry("p", Num(1)), Entry("a", Num(1))>>)}
  \cup {Obj(<<Entry(k, x)>>) : k \in {"a", "p"}, x \in Leaves}
  \cup {Obj(<<Entry("a", x), Entry("p", y)>>) : x \in Leaves, y \in Leaves}

Held == KeyedObjects \cup {Num(1), Arr(<<Num(1)>>)}

OptionValues ==
  KeyedObjects
  \cup {Obj(<<Entry("b", h)>>) : h \in Held}
  \cup {Arr(<<o>>) : o \in KeyedObjects}
  \cup {Arr(<<Obj(<<Entry("a", Num(1))>>), Obj(<<Entry("a", Num(5)), Entry("p", Num(1))>>)>>)}

OptionChoices ==
  {[DefaultOptions EXCEPT !.keysOnly = ko, !.ignoreValues = iv, !.full = fu,
                          !.outputKeys = ok, !.ignoreKeys = ik, !.color = FALSE] :
     ko \in BOOLEAN, iv \in BOOLEAN, fu \in BOOLEAN,
     ok \in {{}, {"a"}}, ik \in {{}, {"p"}}}

InitOptions ==
  /\ oldValue \in OptionValues
  /\ newValue \in OptionValues
  /\ options \in OptionChoices
  /\ call = "none"
  /\ ret = NoReturn
  /\ history = <<>>

SpecOptions == InitOptions /\ [][Next]_vars

(***************************************************************************)
(* Inputs of the array comparisons: arrays of numbers and arrays of words. *)
(* Similarities: 1~2 is 3/4, 2~5 is exactly 7/10, 1~5 is 3/5, aaaa~aaab is *)
(* 3/4, bb is far from both words.                                         *)
(***************************************************************************)
bb == Str(<<"b", "b">>)

Numbers == {Num(1), Num(2), Num(5)}

Words == {aaaa, aaab, bb}

ArrayValues ==
  {Arr(q) : q \in SeqsUpTo(Numbers, MaxArrLen) \cup SeqsUpTo(Words, MaxArrLen)}

\* the arrays of numbers with one more element
LongerArrays == {Arr(Append(q, x)) : q \in SeqsUpTo(Numbers, MaxArrLen), x \in Numbers}

InitArrays ==
  /\ oldValue \in ArrayValues
  /\ newValue \in ArrayValues \cup LongerArrays
  /\ options = DefaultOptions
  /\ call = "none"
  /\ ret = NoReturn
  /\ history = <<>>

NextArrays == CallDiff \/ CallEngineDiff \/ CallDiffRaw

SpecArrays == InitArrays /\ [][NextArrays]_vars

(***************************************************************************)
(* Inputs of the array comparisons made under keysOnly and ignoreValues:   *)
(* arrays of words.                                                        *)
(***************************************************************************)
WordArrays == {Arr(q) : q \in SeqsUpTo(Words, MaxArrLen)}

StructureChoices ==
  {[DefaultOptions EXCEPT !.keysOnly = ko, !.ignoreValues = iv, !.color = FALSE] :
     ko \in BOOLEAN, iv \in BOOLEAN}

InitStructure ==
  /\ oldValue \in WordArrays
  /\ newValue \in WordArrays
  /\ options \in StructureChoices
  /\ call = "none"
  /\ ret = NoReturn
  /\ history = <<>>

NextStructure == CallDiff \/ CallEngineDiff \/ CallDiffRaw \/ CallIsDiff

SpecStructure == InitStructure /\ [][NextStructure]_vars

(***************************************************************************)
(* Adjacent doubles.  2^53 and the double before it, alone, in arrays and  *)
(* under a key.                                                            *)
(***************************************************************************)
Doubles == {Wide(1, 0), Wide(1, 0 - 1)}

DoubleValues ==
  Doubles
  \cup {Arr(q) : q \in SeqsUpTo(Doubles, MaxArrLen)}
  \cup {Obj(<<Entry("a", x)>>) : x \in Doubles}

InitDoubles ==
  /\ oldValue \in DoubleValues
  /\ newValue \in DoubleValues
  /\ options = [DefaultOptions EXCEPT !.color = FALSE]
  /\ call = "none"
  /\ ret = NoReturn
  /\ history = <<>>

NextDoubles ==
  CallCalculateSimilarity \/ CallIsEqual \/ CallDiff \/ CallEngineDiff
    \/ CallDiffRaw

SpecDoubles == InitDoubles /\ [][NextDoubles]_vars

(***************************************************************************)
(* A sequence of calls with changing arguments on the one engine the       *)
(* module creates (index.ts: const diffEngine = new DiffEngine()).  The    *)
(* engine holds a comparator and a formatter and no other field; history   *)
(* records every call made with what it returned.                          *)
(***************************************************************************)
\* the longest sequence of calls followed
MaxCalls == 3

CallValues == {Obj(<<Entry("a", Num(1))>>), Obj(<<Entry("a", Num(2))>>)}

CallOptions == {[DefaultOptions EXCEPT !.color = FALSE],
                [DefaultOptions EXCEPT !.color = FALSE, !.full = TRUE]}

\* the call and its result, appended to the calls made so far
Logged == Append(history, [call |-> call', oldValue |-> oldValue', newValue |-> newValue',
                           options |-> options', ret |-> ret'])

\* the arguments of the next call
Arguments ==
  /\ Len(history) < MaxCalls
  /\ oldValue' \in CallValues
  /\ newValue' \in CallValues
  /\ options' \in CallOptions

\* index.ts: diff -> diffEngine.diff
InvokeDiff ==
  /\ Arguments
  /\ call' = "engineDiff"
  /\ ret' = EngineDiff(oldValue', newValue', options')
  /\ history' = Logged

\* part_007: diffRaw
InvokeDiffRaw ==
  /\ Arguments
  /\ call' = "diffRaw"
  /\ ret' = diffRaw(oldValue', newValue', options')
  /\ history' = Logged

\* part_007: diff, the formatted string
InvokeDiffString ==
  /\ Arguments
  /\ call' = "diffFormatted"
  /\ ret' = diffFormatted(oldValue', newValue', options')
  /\ history' = Logged

\* part_007: isDiff
InvokeIsDiff ==
  /\ Arguments
  /\ call' = "isDiff"
  /\ ret' = isDiff(oldValue', newValue', options')
  /\ history' = Logged

NextCalls == InvokeDiff \/ InvokeDiffRaw \/ InvokeDiffString \/ InvokeIsDiff

InitCalls ==
  /\ oldValue \in CallValues
  /\ newValue \in CallValues
  /\ options \in CallOptions
  /\ call = "none"
  /\ ret = NoReturn
  /\ history = <<>>

SpecCalls == InitCalls /\ [][NextCalls]_vars

(***************************************************************************)
(* Properties                                                              *)
(***************************************************************************)

\* C1 (reflexivity): under the default options, comparing a value with itself
\* gives a root classified Unchanged from diffRaw, false from isDiff, and the
\* empty result {} from the legacy diff of either engine.
C1_Reflexivity ==
  (oldValue = newValue /\ options = DefaultOptions) =>
    /\ call = "diff" => ret = EmptyObject
    /\ call = "engineDiff" => ret = EmptyObject
    /\ call = "diffRaw" => ret.type = "unchanged"
    /\ call = "isDiff" => ret = FALSE

\* a nested array compared with itself by the legacy diff
C1_Witness ==
  /\ call = "diff"
  /\ oldValue = newValue
  /\ oldValue.t = "array"
  /\ Len(oldValue.v) = 2
  /\ oldValue.v[2].t = "object"
  /\ Len(oldValue.v[2].v) = 1
  /\ ret = EmptyObject

\* C2 (Unchanged iff isEqual): under the default options the root of diffRaw
\* is Unchanged exactly when the two values are isEqual, and isDiff is the
\* negation of isEqual; two arrays holding the same elements in a different
\* order are therefore reported as different.
C2_UnchangedIffEqual ==
  options = DefaultOptions =>
    /\ call = "diffRaw" => ((ret.type = "unchanged") <=> isEqual(oldValue, newValue))
    /\ call = "isDiff" => (ret <=> ~isEqual(oldValue, newValue))

\* v without the entries stored under the keys, at every depth
RECURSIVE Scrub(_, _)
Scrub(v, keys) ==
  IF v.t = "array" THEN Arr([i \in 1..Len(v.v) |-> Scrub(v.v[i], keys)])
  ELSE IF v.t = "object" THEN
    LET kept == SelectSeq(v.v, LAMBDA e : e.k \notin keys)
    IN Obj([i \in 1..Len(kept) |-> Entry(kept[i].k, Scrub(kept[i].v, keys))])
  ELSE v

\* the two inputs differ at most under the ignored keys
OnlyIgnoredDiffer ==
  /\ options.ignoreKeys # {}
  /\ isEqual(Scrub(oldValue, options.ignoreKeys), Scrub(newValue, options.ignoreKeys))

\* C3 (ignoreKeys exclusion): two values that differ only in the presence or
\* the values of ignored keys, at the root, in a nested object or in an object
\* that is an array element, compare as Unchanged: isDiff is false, the root of
\* diffRaw is Unchanged and the legacy diff returns the empty result {}.
C3_IgnoreKeysExclusion ==
  OnlyIgnoredDiffer =>
    /\ call = "diffRaw" => ret.type = "unchanged"
    /\ call = "isDiff" => ret = FALSE
    /\ (call = "engineDiff" /\ ~options.full /\ options.outputKeys = {}) => ret = EmptyObject

\* v with w stored under every one of the keys, at every depth
RECURSIVE Redact(_, _, _)
Redact(v, keys, w) ==
  IF v.t = "array" THEN Arr([i \in 1..Len(v.v) |-> Redact(v.v[i], keys, w)])
  ELSE IF v.t = "object" THEN
    Obj([i \in 1..Len(v.v) |->
           Entry(v.v[i].k, IF v.v[i].k \in keys THEN w ELSE Redact(v.v[i].v, keys, w))])
  ELSE v

\* no node below the root of the tree is the child for one of the keys
RECURSIVE NoChildFor(_, _)
NoChildFor(node, keys) ==
  \A i \in 1..Len(node.children) :
    /\ LastKey(node.children[i]) \notin keys
    /\ NoChildFor(node.children[i], keys)

\* C4 (ignored keys do not leak): with ignoreKeys set, no ignored key is a
\* child anywhere in the diff tree, its name does not occur in the formatted
\* string, and the formatted string does not depend on the values stored
\* under ignored keys (it is the string of the inputs in which every such
\* value is replaced by one fixed value), also when the object that holds the
\* ignored key is added, removed or replaced as a whole.
C4_IgnoredKeysDoNotLeak ==
  options.ignoreKeys # {} =>
    /\ call = "diffRaw" => NoChildFor(ret, options.ignoreKeys)
    /\ call = "diffFormatted" =>
         /\ \A i \in 1..Len(ret) : ret[i] \notin options.ignoreKeys
         /\ ret = diffFormatted(Redact(oldValue, options.ignoreKeys, Num(1)),
                                Redact(newValue, options.ignoreKeys, Num(1)), options)

\* two objects with the same key set at every nesting level
RECURSIVE SameKeySets(_, _)
SameKeySets(a, b) ==
  /\ a.t = "object"
  /\ b.t = "object"
  /\ {a.v[i].k : i \in 1..Len(a.v)} = {b.v[i].k : i \in 1..Len(b.v)}
  /\ \A i \in 1..Len(a.v) :
       LET x == a.v[i].v
           y == getKey(b, a.v[i].k)
       IN IF x.t = "object" \/ y.t = "object" THEN SameKeySets(x, y) ELSE TRUE

KeySet(o) == {o.v[i].k : i \in 1..Len(o.v)}

\* the pairs <<k, d>>: k is a key of both inputs holding an object on both
\* sides, and d is a key of exactly one of the two objects (neither ignored)
NestedKeyChanges ==
  IF oldValue.t = "object" /\ newValue.t = "object"
  THEN {kd \in (KeySet(oldValue) \cap KeySet(newValue)) \X {"a", "b", "p"} :
          /\ kd[1] \notin options.ignoreKeys
          /\ kd[2] \notin options.ignoreKeys
          /\ getKey(oldValue, kd[1]).t = "object"
          /\ getKey(newValue, kd[1]).t = "object"
          /\ hasKey(getKey(oldValue, kd[1]), kd[2]) # hasKey(getKey(newValue, kd[1]), kd[2])}
  ELSE {}

\* the child of a typed node for a key
ChildFor(node, key) ==
  LET found == SelectSeq(node.children, LAMBDA c : LastKey(c) = key)
  IN IF Len(found) = 0 THEN LeafNode("none", <<>>, Undef, Undef, NoMeta) ELSE found[1]

\* the legacy result records, under k, the key d as added or removed
LegacyReports(result, k, d) ==
  /\ result.t = "object"
  /\ hasKey(result, k)
  /\ getKey(result, k).t = "object"
  /\ hasKey(getKey(result, k), d)
  /\ getKey(getKey(result, k), d) =
       DiffChange(getKey(getKey(oldValue, k), d), getKey(getKey(newValue, k), d))

\* C6 (structure-only comparison sees structural changes at every depth):
\* with keysOnly or ignoreValues set, a key added to or removed from an object
\* that sits under a key present on both sides is reported as an Added or
\* Removed child of the nested node, the nested node and the root are
\* Changed and isDiff is true; the legacy diff reports the key under the
\* nested object as well (diff.ts knows keysOnly only).
C6_StructuralChangesSeen ==
  structureOnly(options) =>
    \A kd \in NestedKeyChanges :
      /\ call = "diffRaw" =>
           /\ ret.type = "changed"
           /\ ChildFor(ret, kd[1]).type = "changed"
           /\ ChildFor(ChildFor(ret, kd[1]), kd[2]).type =
                (IF hasKey(getKey(newValue, kd[1]), kd[2]) THEN "added" ELSE "removed")
      /\ call = "isDiff" => ret = TRUE
      /\ call = "engineDiff" => LegacyReports(ret, kd[1], kd[2])
      /\ (call = "diff" /\ options.keysOnly) => LegacyReports(ret, kd[1], kd[2])

\* no element of the array scores above the threshold against the item
NoCandidate(item, array) ==
  \A j \in 1..Len(array) : ~RatGT(calculateSimilarity(item, array[j]), MatchThreshold)

\* the legacy result holds the entry at position i (1-based)
LegacyEntryIs(result, i, entry) ==
  /\ result.t = "array"
  /\ Len(result.v) >= i
  /\ result.v[i] = entry

\* C7 (array alignment threshold): an old element is paired with a new element
\* only if their similarity is strictly greater than 0.7.  An old element
\* with no candidate above 0.7 (a score of exactly 0.7 included) is emitted as
\* Removed, a new element with no candidate above 0.7 as Added, never as one
\* Changed node, for arrays of equal length too.
C7_AlignmentThreshold ==
  (oldValue.t = "array" /\ newValue.t = "array") =>
    /\ \A i \in 1..Len(oldValue.v) :
         NoCandidate(oldValue.v[i], newValue.v) =>
           /\ call \in {"diff", "engineDiff"} =>
                LegacyEntryIs(ret, i, DiffChange(oldValue.v[i], Undef))
           /\ call = "diffRaw" =>
                /\ ret.children[i].type = "removed"
                /\ ret.children[i].oldValue = oldValue.v[i]
    /\ \A j \in 1..Len(newValue.v) :
         NoCandidate(newValue.v[j], oldValue.v) =>
           /\ call \in {"diff", "engineDiff"} =>
                /\ ret.t = "array"
                /\ \E k \in 1..Len(ret.v) : ret.v[k] = DiffChange(Undef, newValue.v[j])
           /\ call = "diffRaw" =>
                \E k \in 1..Len(ret.children) :
                  /\ ret.children[k].type = "added"
                  /\ ret.children[k].newValue = newValue.v[j]
                  /\ ret.children[k].path = <<ToString(j - 1)>>

\* the positions (1-based) of the array that no earlier match has claimed
Available(array, claimed) == {j \in 1..Len(array) : (j - 1) \notin claimed}

\* the available position with the highest similarity to the item, the lowest
\* such position on a tie
BestAvailable(item, array, claimed) ==
  CHOOSE j \in Available(array, claimed) :
    \A k \in Available(array, claimed) :
      \/ RatGT(calculateSimilarity(item, array[j]), calculateSimilarity(item, array[k]))
      \/ /\ RatEQ(calculateSimilarity(item, array[j]), calculateSimilarity(item, array[k]))
         /\ j <= k

\* the old element i has an available candidate that scores above the
\* threshold and is not equal to it
Acceptable(i, claimed) ==
  /\ Available(newValue.v, claimed) # {}
  /\ LET j == BestAvailable(oldValue.v[i], newValue.v, claimed)
     IN /\ RatGT(calculateSimilarity(oldValue.v[i], newValue.v[j]), MatchThreshold)
        /\ ~isEqual(oldValue.v[i], newValue.v[j])

\* C8 (array alignment acceptance): when the best candidate still available
\* to an old element (not claimed by an earlier old element) scores above 0.7
\* and is not equal to it, the pair is emitted as exactly one Changed node
\* carrying the old and the new value, and neither a Removed node for the old
\* element nor an Added node for the new one.
C8_AlignmentAcceptance ==
  (oldValue.t = "array" /\ newValue.t = "array" /\ ~isEqual(oldValue, newValue)) =>
    \A i \in 1..Len(oldValue.v) :
      /\ call = "diff" =>
           LET claimed == FirstPass(oldValue.v, newValue.v, options, i - 1).matched
           IN Acceptable(i, claimed) =>
                LegacyEntryIs(ret, i,
                  DiffChange(oldValue.v[i],
                             newValue.v[BestAvailable(oldValue.v[i], newValue.v, claimed)]))
      /\ (call = "engineDiff" /\ Len(oldValue.v) # Len(newValue.v)) =>
           LET claimed == EngineFirstPass(oldValue.v, newValue.v, options, i - 1).matched
           IN Acceptable(i, claimed) =>
                LegacyEntryIs(ret, i,
                  DiffChange(oldValue.v[i],
                             newValue.v[BestAvailable(oldValue.v[i], newValue.v, claimed)]))
      /\ call = "diffRaw" =>
           LET claimed == AlignFirstPass(oldValue.v, newValue.v, options, <<>>, i - 1).matched
           IN Acceptable(i, claimed) =>
                LET j == BestAvailable(oldValue.v[i], newValue.v, claimed)
                IN /\ ret.children[i].type = "changed"
                   /\ ret.children[i].oldValue = oldValue.v[i]
                   /\ ret.children[i].newValue = newValue.v[j]
                   /\ \A k \in 1..Len(ret.children) :
                        ~(/\ ret.children[k].type = "added"
                          /\ ret.children[k].path = <<ToString(j - 1)>>)

\* the new array is the old array followed by at least one more element
IsAppend ==
  /\ oldValue.t = "array"
  /\ newValue.t = "array"
  /\ Len(newValue.v) > Len(oldValue.v)
  /\ SubSeq(newValue.v, 1, Len(oldValue.v)) = oldValue.v

\* C9 (appending to an array): if the new array is the old array followed by
\* k >= 1 extra elements, the diff has exactly |old| + k children: the first
\* |old| are Unchanged and carry old[0..] in order, the last k are Added and
\* carry the extra elements in order, the Added child for new index j having
\* path [j], and the root is Changed; the elements of the old array need not
\* be distinct.
C9_Append ==
  IsAppend =>
    /\ call \in {"diff", "engineDiff"} =>
         /\ ret.t = "array"
         /\ Len(ret.v) = Len(newValue.v)
         /\ \A i \in 1..Len(oldValue.v) : ret.v[i] = oldValue.v[i]
         /\ \A j \in (Len(oldValue.v) + 1)..Len(newValue.v) :
              ret.v[j] = DiffChange(Undef, newValue.v[j])
    /\ call = "diffRaw" =>
         /\ ret.type = "changed"
         /\ Len(ret.children) = Len(newValue.v)
         /\ \A i \in 1..Len(oldValue.v) :
              /\ ret.children[i].type = "unchanged"
              /\ ret.children[i].oldValue = oldValue.v[i]
              /\ ret.children[i].newValue = oldValue.v[i]
         /\ \A j \in (Len(oldValue.v) + 1)..Len(newValue.v) :
              /\ ret.children[j].type = "added"
              /\ ret.children[j].newValue = newValue.v[j]
              /\ ret.children[j].path = <<ToString(j - 1)>>

\* the positions at which two arrays of equal length differ
DifferingPositions ==
  IF oldValue.t = "array" /\ newValue.t = "array" /\ Len(oldValue.v) = Len(newValue.v)
  THEN {i \in 1..Len(oldValue.v) : ~isEqual(oldValue.v[i], newValue.v[i])}
  ELSE {}

\* C10 (single-position change): for two arrays of equal length that differ at
\* exactly one index i, the diff has exactly one child that is not Unchanged,
\* a Changed child at position and path [i] with oldValue old[i] and newValue
\* new[i]; every other position is reported Unchanged with its value.
C10_SinglePositionChange ==
  Cardinality(DifferingPositions) = 1 =>
    LET i == CHOOSE p \in DifferingPositions : TRUE
    IN /\ call \in {"diff", "engineDiff"} =>
            /\ ret.t = "array"
            /\ Len(ret.v) = Len(oldValue.v)
            /\ ret.v[i] = DiffChange(oldValue.v[i], newValue.v[i])
            /\ \A k \in 1..Len(oldValue.v) : k # i => ret.v[k] = oldValue.v[k]
       /\ call = "diffRaw" =>
            /\ Len(ret.children) = Len(oldValue.v)
            /\ ret.children[i].type = "changed"
            /\ ret.children[i].path = <<ToString(i - 1)>>
            /\ ret.children[i].oldValue = oldValue.v[i]
            /\ ret.children[i].newValue = newValue.v[i]
            /\ \A k \in 1..Len(oldValue.v) :
                 k # i => /\ ret.children[k].type = "unchanged"
                          /\ ret.children[k].oldValue = oldValue.v[k]

\* node, the typed diff of the objects old and new, classifies every key: a
\* key of old only is Removed with its old value, a key of new only is Added
\* with its new value, a key of both with values that are not isEqual is
\* Changed with both values, and so on inside two nested objects
RECURSIVE KeysClassified(_, _, _)
KeysClassified(node, old, new) ==
  \A key \in KeySet(old) \cup KeySet(new) :
    LET o == getKey(old, key)
        n == getKey(new, key)
        child == ChildFor(node, key)
    IN IF ~hasKey(new, key)
       THEN child.type = "removed" /\ child.oldValue = o /\ child.path = Append(node.path, key)
       ELSE IF ~hasKey(old, key)
       THEN child.type = "added" /\ child.newValue = n /\ child.path = Append(node.path, key)
       ELSE ~isEqual(o, n) =>
              /\ child.type = "changed"
              /\ child.path = Append(node.path, key)
              /\ child.oldValue = o
              /\ child.newValue = n
              /\ (o.t = "object" /\ n.t = "object") => KeysClassified(child, o, n)

\* a result of the legacy diff that holds a change record { __old, __new }
RECURSIVE LegacyHasChange(_)
LegacyHasChange(x) ==
  \/ x.t = "object" /\ hasKey(x, "__old") /\ hasKey(x, "__new")
  \/ x.t = "array" /\ \E i \in 1..Len(x.v) : LegacyHasChange(x.v[i])
  \/ x.t = "object" /\ \E i \in 1..Len(x.v) : LegacyHasChange(x.v[i].v)

\* the legacy counterpart of KeysClassified for the result of diff
LegacyKeysClassified(result, old, new) ==
  \A key \in KeySet(old) \cup KeySet(new) :
    LET o == getKey(old, key)
        n == getKey(new, key)
    IN IF ~hasKey(new, key) THEN hasKey(result, key) /\ getKey(result, key) = DiffChange(o, Undef)
       ELSE IF ~hasKey(old, key)
       THEN hasKey(result, key) /\ getKey(result, key) = DiffChange(Undef, n)
       ELSE ~isEqual(o, n) => hasKey(result, key) /\ LegacyHasChange(getKey(result, key))

\* the two inputs are objects that differ in some key
ObjectsDiffer ==
  /\ oldValue.t = "object"
  /\ newValue.t = "object"
  /\ ~isEqual(oldValue, newValue)

\* C11 (object key classification): for two objects compared under the
\* default options, every key of the old object only yields a Removed child
\* carrying its old value, every key of the new object only an Added child
\* carrying its new value, every key of both with values that are not equal a
\* Changed child at path [key] carrying both values (recursively for nested
\* objects), and the root is then Changed; the legacy diff records the same
\* keys with change records.
C11_KeyClassification ==
  (ObjectsDiffer /\ options = DefaultOptions) =>
    /\ call = "diffRaw" => ret.type = "changed" /\ KeysClassified(ret, oldValue, newValue)
    /\ call = "isDiff" => ret = TRUE
    /\ call \in {"diff", "engineDiff"} =>
         ret # EmptyObject /\ LegacyKeysClassified(ret, oldValue, newValue)


\* C12 (absent versus null at the root): undefined against undefined is
\* Unchanged; undefined against any other value is Added; any other value,
\* null included, against undefined is Removed; null against a value that is
\* neither null nor undefined, in either direction, is Changed.  The legacy
\* diff returns {} in the first case and the change record of the two values
\* in the others.
C12_AbsentVersusNull ==
  LET kind == IF oldValue = Undef /\ newValue = Undef THEN "unchanged"
              ELSE IF oldValue = Undef THEN "added"
              ELSE IF newValue = Undef THEN "removed"
              ELSE IF (oldValue = Null) # (newValue = Null) THEN "changed"
              ELSE "other"
  IN kind # "other" =>
       /\ call = "diffRaw" =>
            /\ ret.type = kind
            /\ ret.oldValue = oldValue
            /\ ret.newValue = newValue
       /\ call = "isDiff" => (ret <=> kind # "unchanged")
       /\ call \in {"diff", "engineDiff"} =>
            ret = (IF kind = "unchanged" THEN EmptyObject ELSE DiffChange(oldValue, newValue))

\* null against undefined: Removed in the typed tree
C12_Witness ==
  /\ call = "diffRaw"
  /\ oldValue = Null
  /\ newValue = Undef
  /\ ret.type = "removed"

\* the display options: full, outputKeys, color and withSimilarity
DisplayChoices ==
  [full : BOOLEAN, outputKeys : {{}, {"a"}}, color : BOOLEAN, withSimilarity : BOOLEAN]

\* opts with its display options replaced by those of d
WithDisplay(opts, d) ==
  [opts EXCEPT !.full = d.full, !.outputKeys = d.outputKeys,
               !.color = d.color, !.withSimilarity = d.withSimilarity]

\* C13 (isDiff depends on the comparison options only): for the same two
\* inputs and the same ignoreKeys, keysOnly and ignoreValues, every choice of
\* full, outputKeys, color and withSimilarity gives the value of isDiff and
\* the root kind of diffRaw that the call returned.
C13_DisplayOptionsDoNotDecide ==
  /\ call = "isDiff" =>
       \A d \in DisplayChoices : isDiff(oldValue, newValue, WithDisplay(options, d)) = ret
  /\ call = "diffRaw" =>
       \A d \in DisplayChoices :
         diffRaw(oldValue, newValue, WithDisplay(options, d)).type = ret.type

\* two equal objects compared with full set: isDiff is false although the
\* tree retains the Unchanged child
C13_Witness ==
  /\ call = "isDiff"
  /\ options.full
  /\ ~structureOnly(options)
  /\ oldValue = Obj(<<Entry("a", Num(1))>>)
  /\ newValue = oldValue
  /\ Len(diffRaw(oldValue, newValue, options).children) = 1
  /\ ret = FALSE

\* the string s holds the characters sub in a row
Occurs(sub, s) ==
  \E i \in 1..(Len(s) - Len(sub) + 1) : SubSeq(s, i, i + Len(sub) - 1) = sub

\* the keys the options ask to retain that both objects hold with equal values
KeptKeys(old, new) ==
  IF old.t = "object" /\ new.t = "object"
  THEN {k \in (KeySet(old) \cap KeySet(new) \cap options.outputKeys) \ options.ignoreKeys :
          isEqual(getKey(old, k), getKey(new, k))}
  ELSE {}

\* the keys both inputs hold, with an object on either side
CommonObjectKeys ==
  IF oldValue.t = "object" /\ newValue.t = "object"
  THEN {k \in (KeySet(oldValue) \cap KeySet(newValue)) \ options.ignoreKeys :
          getKey(oldValue, k).t = "object" /\ getKey(newValue, k).t = "object"}
  ELSE {}

\* the unsigned line of a retained key at the given depth: a line break, the
\* indentation, two blanks in place of the sign, then key: value
UnsignedLine(depth, key, value) ==
  <<"\n">> \o Spaces(2 * depth) \o <<" ", " ", key, ":", " ">> \o formatPrimitive(value)

\* C14 (outputKeys retention): every key listed in outputKeys that two
\* compared objects (the two inputs, or the two objects under a key of both
\* inputs) hold with equal values is retained as an Unchanged entry carrying
\* its value, with full unset too and whether or not the two objects differ
\* elsewhere, and the formatted output shows it as an unsigned key: value
\* line.
C14_OutputKeysRetained ==
  /\ \A k \in KeptKeys(oldValue, newValue) :
       LET value == getKey(newValue, k)
       IN /\ call = "diffRaw" =>
               ChildFor(ret, k).type = "unchanged" /\ ChildFor(ret, k).newValue = value
          /\ call \in {"diff", "engineDiff"} => hasKey(ret, k) /\ getKey(ret, k) = value
          /\ call = "diffFormatted" => Occurs(UnsignedLine(1, k, value), ret)
  /\ \A b \in CommonObjectKeys :
       \A k \in KeptKeys(getKey(oldValue, b), getKey(newValue, b)) :
         LET value == getKey(getKey(newValue, b), k)
         IN /\ call = "diffRaw" =>
                 /\ ChildFor(ChildFor(ret, b), k).type = "unchanged"
                 /\ ChildFor(ChildFor(ret, b), k).newValue = value
            /\ call \in {"diff", "engineDiff"} =>
                 /\ hasKey(ret, b)
                 /\ getKey(ret, b).t = "object"
                 /\ hasKey(getKey(ret, b), k)
                 /\ getKey(getKey(ret, b), k) = value
            /\ call = "diffFormatted" => Occurs(UnsignedLine(2, k, value), ret)

\* a change record { __old, __new } of the legacy diff
IsChangeRecord(x) == x.t = "object" /\ hasKey(x, "__old") /\ hasKey(x, "__new")

\* the typed tree without the Unchanged entries of its object nodes, those
\* under a key of keep excepted
RECURSIVE PruneNode(_, _)
PruneNode(node, keep) ==
  LET kept == SelectSeq(node.children,
                        LAMBDA c : \/ node.oldValue.t # "object"
                                   \/ c.type # "unchanged"
                                   \/ LastKey(c) \in keep)
  IN [node EXCEPT !.children = [i \in 1..Len(kept) |-> PruneNode(kept[i], keep)]]

\* the legacy result without its unchanged entries: an object entry without
\* a change record is deleted unless its key is in keep, an array entry
\* without a change record becomes undefined
RECURSIVE LegacyPrune(_, _)
LegacyPrune(x, keep) ==
  IF IsChangeRecord(x) THEN x
  ELSE IF x.t = "array"
  THEN Arr([i \in 1..Len(x.v) |->
              IF LegacyHasChange(x.v[i]) THEN LegacyPrune(x.v[i], keep) ELSE Undef])
  ELSE IF x.t = "object"
  THEN LET kept == SelectSeq(x.v, LAMBDA e : LegacyHasChange(e.v) \/ e.k \in keep)
       IN Obj([i \in 1..Len(kept) |->
                 IF LegacyHasChange(kept[i].v)
                 THEN Entry(kept[i].k, LegacyPrune(kept[i].v, keep))
                 ELSE kept[i]])
  ELSE x

\* the legacy result in which every array entry without a change record is
\* undefined (an unchanged element is stored as undefined or as {})
RECURSIVE LegacyBlank(_)
LegacyBlank(x) ==
  IF IsChangeRecord(x) THEN x
  ELSE IF x.t = "array"
  THEN Arr([i \in 1..Len(x.v) |->
              IF LegacyHasChange(x.v[i]) THEN LegacyBlank(x.v[i]) ELSE Undef])
  ELSE IF x.t = "object"
  THEN Obj([i \in 1..Len(x.v) |-> Entry(x.v[i].k, LegacyBlank(x.v[i].v))])
  ELSE x

\* the legacy result of the root after pruning: {} for two equal inputs,
\* whose result with full is the old value itself
LegacyPruneRoot(x, keep) ==
  IF isEqual(oldValue, newValue) THEN EmptyObject ELSE LegacyPrune(x, keep)

\* the keys both inputs hold, the ignored ones left out
CommonKeys ==
  IF oldValue.t = "object" /\ newValue.t = "object"
  THEN (KeySet(oldValue) \cap KeySet(newValue)) \ options.ignoreKeys
  ELSE {}

\* the options with full unset
WithoutFull == [options EXCEPT !.full = FALSE]

\* full in the typed tree
FullTyped ==
  (options.full /\ call = "diffRaw") =>
    /\ \A k \in CommonKeys :
         /\ ChildFor(ret, k).type # "none"
         /\ isEqual(getKey(oldValue, k), getKey(newValue, k)) =>
              /\ ChildFor(ret, k).type = "unchanged"
              /\ ChildFor(ret, k).newValue = getKey(newValue, k)
    /\ ret.type = diffRaw(oldValue, newValue, WithoutFull).type
    /\ PruneNode(ret, options.outputKeys) = diffRaw(oldValue, newValue, WithoutFull)

\* full in the result of a legacy diff, whose result without full is without
FullLegacy(without) ==
  /\ \A k \in CommonKeys :
       /\ hasKey(ret, k)
       /\ isEqual(getKey(oldValue, k), getKey(newValue, k)) =>
            isEqual(getKey(ret, k), getKey(newValue, k))
  /\ LegacyPruneRoot(ret, options.outputKeys) = LegacyBlank(without)

\* C15 (full changes retention only): the diff computed with full holds an
\* entry for every key of both objects that is not ignored, an entry of two
\* equal values carrying that value; its root has the kind of the root
\* computed without full; and without its Unchanged entries (those the
\* options do not ask to retain) it is exactly the diff computed without
\* full, in the typed tree and in the result of either legacy diff.
C15_FullRetainsOnly ==
  /\ FullTyped
  /\ (options.full /\ call = "diff") =>
       FullLegacy(diff(oldValue, newValue, WithoutFull))
  /\ (options.full /\ call = "engineDiff") =>
       FullLegacy(EngineDiff(oldValue, newValue, WithoutFull))

RECURSIVE DeepEqual(_, _)
DeepEqual(a, b) ==
  IF a.t # b.t THEN FALSE
  ELSE IF a.t = "array"
  THEN Len(a.v) = Len(b.v) /\ \A i \in 1..Len(a.v) : DeepEqual(a.v[i], b.v[i])
  ELSE IF a.t = "object"
  THEN KeySet(a) = KeySet(b) /\ \A k \in KeySet(a) : DeepEqual(getKey(a, k), getKey(b, k))
  ELSE a = b

\* C17 (isEqual is deep structural equality): null and undefined are equal
\* only to themselves; values of different types, and an array and an
\* object, are not equal; two arrays are equal iff they have the same length
\* and equal elements at every index; two objects are equal iff they have the
\* same key set, in whatever order, and equal values for every key.
C17_IsEqualDeep ==
  call = "isEqual" => (ret <=> DeepEqual(oldValue, newValue))

\* two objects holding the same entries in another order are equal
C17_Witness ==
  /\ call = "isEqual"
  /\ oldValue = Obj(<<Entry("a", Num(1)), Entry("b", Num(2))>>)
  /\ newValue = Obj(<<Entry("b", Num(2)), Entry("a", Num(1))>>)
  /\ ret = TRUE

\* the node and all the nodes below it
RECURSIVE NodesOf(_)
NodesOf(node) ==
  {node} \cup UNION {NodesOf(node.children[i]) : i \in 1..Len(node.children)}

\* the edit distance of the first i characters of a and the first j of b
RECURSIVE EditDistance(_, _, _, _)
EditDistance(a, b, i, j) ==
  IF i = 0 THEN j
  ELSE IF j = 0 THEN i
  ELSE Min2(Min2(EditDistance(a, b, i - 1, j) + 1, EditDistance(a, b, i, j - 1) + 1),
            EditDistance(a, b, i - 1, j - 1) + (IF a[i] = b[j] THEN 0 ELSE 1))

\* the metadata of a comparison of two strings is their edit distance and
\* 1 - distance / max(len)
HasStringMeta(node) ==
  LET a == node.oldValue.v
      b == node.newValue.v
      d == EditDistance(a, b, Len(a), Len(b))
      m == Max2(Len(a), Len(b))
  IN /\ node.meta.has
     /\ node.meta.levenDistance = d
     /\ RatEQ(node.meta.similarity, Rat(m - d, m))

DifferentStrings(a, b) == a.t = "string" /\ b.t = "string" /\ a # b

Plain(s) == SelectSeq(s, LAMBDA c : c \notin {colors.reset, colors.red, colors.green, colors.gray})

\* the lines of a text
RECURSIVE SplitLines(_)
SplitLines(s) ==
  IF \A i \in 1..Len(s) : s[i] # "\n" THEN <<s>>
  ELSE LET at == CHOOSE i \in 1..Len(s) : s[i] = "\n" /\ \A j \in 1..(i - 1) : s[j] # "\n"
       IN <<SubSeq(s, 1, at - 1)>> \o SplitLines(SubSeq(s, at + 1, Len(s)))

\* a line without its indentation and without the comma that ends it
Bare(line) ==
  LET t == trim(line)
  IN IF Len(t) > 0 /\ t[Len(t)] = "," THEN SubSeq(t, 1, Len(t) - 1) ELSE t

\* the line starts, after its indentation, with the sign and a space
Signed(line, sign) ==
  LET t == TrimStart(line) IN Len(t) >= 2 /\ t[1] = sign /\ t[2] = " "

\* the line opens or closes a block: a bracket, or key: and an opening bracket
Structural(line) ==
  LET t == Bare(line)
  IN \/ t \in {<<"{">>, <<"}">>, <<"[">>, <<"]">>}
     \/ Len(t) = 4 /\ t[2] = ":" /\ t[3] = " " /\ t[4] \in {"{", "["}

\* the line shows the value after the sign, with or without the key of the node
SignedValue(line, sign, node, text) ==
  \/ Bare(line) = <<sign, " ">> \o text
  \/ Bare(line) = <<sign, " ">> \o KeyPrefix(LastKey(node)) \o text

\* the nodes of the tree without children and of the given type
LeavesOf(tree, type) == {n \in NodesOf(tree) : ~hasChildren(n) /\ n.type = type}

SignedLines(lines, sign) == {i \in 1..Len(lines) : Signed(lines[i], sign)}

SingleLine(value) == \A i \in 1..Len(formatPrimitive(value)) : formatPrimitive(value)[i] # "\n"

\* the lines from lines[i] on show the value after the sign, with or without
\* the key of the node, over as many lines as the text of the value has
SignedBlock(lines, i, sign, node, value) ==
  \E key \in {<<>>, KeyPrefix(LastKey(node))} :
    LET block == SplitLines(<<sign, " ">> \o key \o formatPrimitive(value))
    IN /\ i + Len(block) - 1 <= Len(lines)
       /\ \A j \in 1..Len(block) : Bare(lines[i + j - 1]) = Bare(block[j])

LineCount(value) == Len(SplitLines(formatPrimitive(value)))

NoDifference ==
  \/ isEqual(oldValue, newValue)
  \/ isEqual(Scrub(oldValue, options.ignoreKeys), Scrub(newValue, options.ignoreKeys))
  \/ options.ignoreValues /\ SameKeySets(oldValue, newValue)

\* C20 (no difference renders as nothing): when the two inputs have no
\* difference under the active options (identical values of any shape, values
\* differing only in ignored keys, objects differing only in values under
\* ignoreValues) and full is not set, the formatted diff string is empty
\* after trimming.
C20_NoDifferenceRendersNothing ==
  (call = "diffFormatted" /\ ~options.full /\ NoDifference) => trim(ret) = <<>>

\* the text opens a block at i and closes it on the next line with nothing
\* between the two brackets
EmptyBlockAt(s, i) ==
  /\ s[i] \in {"[", "{"}
  /\ i < Len(s)
  /\ s[i + 1] = "\n"
  /\ \E j \in (i + 2)..Len(s) :
       /\ s[j] \in {"]", "}"}
       /\ \A k \in (i + 2)..(j - 1) : s[k] = " "

\* the root is an array or object comparison none of whose children is shown:
\* it has none, or all of them are Unchanged and nothing asks to keep them
NoVisibleChildren(tree, opts) ==
  /\ isContainer(tree.oldValue)
  /\ tree.oldValue.t = tree.newValue.t
  /\ \A n \in NodesOf(tree) : n.type = "unchanged"
  /\ hasChildren(tree) => (~opts.full /\ opts.outputKeys = {})

\* C21 (empty containers): whenever the formatter renders an object or array
\* node that has no visible children (none at all, or all of them filtered
\* out as unchanged), the rendering is exactly '{}' or '[]' with no newline
\* between the brackets: the text of a root without visible children, when
\* there is one, is '{}' or '[]', and no rendered text holds a block that is
\* opened and closed with only a newline and indentation inside.
C21_EmptyContainers ==
  call = "diffFormatted" =>
    /\ (NoVisibleChildren(diffRaw(oldValue, newValue, options), options) /\ Len(ret) > 0) =>
         trim(Plain(ret)) \in {<<"{", "}">>, <<"[", "]">>}
    /\ \A i \in 1..Len(ret) : ~EmptyBlockAt(ret, i)

\* two calls of the same entry point with the same inputs and options
SameCallAt(i, j) ==
  /\ history[i].call = history[j].call
  /\ history[i].oldValue = history[j].oldValue
  /\ history[i].newValue = history[j].newValue
  /\ history[i].options = history[j].options

SameLengthWords ==
  /\ oldValue.t = "array"
  /\ newValue.t = "array"
  /\ Len(oldValue.v) = Len(newValue.v)
  /\ \A i \in 1..Len(oldValue.v) : oldValue.v[i].t = "string" /\ newValue.v[i].t = "string"

\* C23 (arrays under structure-only options): with ignoreValues or keysOnly
\* set, array elements are compared through the same core logic as object
\* values, so two arrays of the same length whose string elements differ only
\* in value report no Changed, Added or Removed element: every node of the
\* diffRaw tree is Unchanged, isDiff is false, and the legacy result holds no
\* change record (diff.ts knows keysOnly only).
C23_ArraysStructureOnly ==
  (structureOnly(options) /\ SameLengthWords) =>
    /\ call = "diffRaw" => \A n \in NodesOf(ret) : n.type = "unchanged"
    /\ call = "isDiff" => ret = FALSE
    /\ call = "engineDiff" => ~LegacyHasChange(ret)
    /\ (call = "diff" /\ options.keysOnly) => ~LegacyHasChange(ret)

\* the old element i has, among the positions not claimed, a best candidate
\* that scores above the threshold
HasFreeCandidate(i, claimed) ==
  /\ Available(newValue.v, claimed) # {}
  /\ RatGT(calculateSimilarity(oldValue.v[i],
                               newValue.v[BestAvailable(oldValue.v[i], newValue.v, claimed)]),
           MatchThreshold)

\* C24 (greedy candidate selection): for each old element taken in index
\* order, the candidate considered is the lowest new-array index that attains
\* the highest similarity among the new-array indices not yet claimed by an
\* earlier old element.  Claimed indices are excluded from the search, so an
\* old element whose overall best candidate is already claimed is matched to
\* its best unclaimed candidate whenever that candidate scores above 0.7, and
\* is Removed only when that candidate does not.
C24_GreedySelection ==
  (oldValue.t = "array" /\ newValue.t = "array" /\ ~isEqual(oldValue, newValue)
   /\ Len(oldValue.v) > 0 /\ Len(newValue.v) > 0) =>
    \A i \in 1..Len(oldValue.v) :
      /\ call = "diff" =>
           LET claimed == FirstPass(oldValue.v, newValue.v, options, i - 1).matched
           IN HasFreeCandidate(i, claimed)
                <=> ~LegacyEntryIs(ret, i, DiffChange(oldValue.v[i], Undef))
      /\ (call = "engineDiff" /\ Len(oldValue.v) # Len(newValue.v)) =>
           LET claimed == EngineFirstPass(oldValue.v, newValue.v, options, i - 1).matched
           IN HasFreeCandidate(i, claimed)
                <=> ~LegacyEntryIs(ret, i, DiffChange(oldValue.v[i], Undef))
      /\ call = "diffRaw" =>
           LET claimed == AlignFirstPass(oldValue.v, newValue.v, options, <<>>, i - 1).matched
           IN IF HasFreeCandidate(i, claimed)
              THEN /\ ret.children[i].type # "removed"
                   /\ ret.children[i].newValue =
                        newValue.v[BestAvailable(oldValue.v[i], newValue.v, claimed)]
              ELSE ret.children[i].type = "removed"

\* the nodes of the tree that compare two arrays
ArrayNodes(tree) == {n \in NodesOf(tree) : isArray(n.oldValue) /\ isArray(n.newValue)}

FreeInOrder(n, total, claimed) ==
  {f \in [(n + 1)..total -> Available(newValue.v, claimed)] :
     /\ \A k \in (n + 1)..total : \A l \in (n + 1)..total : k < l => f[k] < f[l]
     /\ \A j \in Available(newValue.v, claimed) : \E k \in (n + 1)..total : f[k] = j}

\* the legacy entry comes from the old item: it is the item kept, nothing, or
\* a record of the item removed or changed, and not a record of an added item
FromOldItem(entry, item) ==
  \/ entry = Undef
  \/ entry = item
  \/ IsChangeRecord(entry) /\ getKey(entry, "__old") = item

\* the legacy result is the entries of the old items in their order and then
\* the added entries of the free new positions in ascending order
LegacyInOrder(result, claimed) ==
  LET n == Len(oldValue.v)
  IN /\ result.t = "array"
     /\ Len(result.v) >= n
     /\ \A i \in 1..n : FromOldItem(result.v[i], oldValue.v[i])
     /\ \E f \in FreeInOrder(n, Len(result.v), claimed) :
          \A k \in (n + 1)..Len(result.v) :
            result.v[k] = DiffChange(Undef, newValue.v[f[k]])

\* the same for the children of the typed array node
ChildrenInOrder(node, claimed) ==
  LET n == Len(oldValue.v)
  IN /\ Len(node.children) >= n
     /\ \A i \in 1..n :
          /\ node.children[i].type # "added"
          /\ node.children[i].oldValue = oldValue.v[i]
          /\ node.children[i].path = <<ToString(i - 1)>>
     /\ \E f \in FreeInOrder(n, Len(node.children), claimed) :
          \A k \in (n + 1)..Len(node.children) :
            /\ node.children[k].type = "added"
            /\ node.children[k].newValue = newValue.v[f[k]]
            /\ node.children[k].path = <<ToString(f[k] - 1)>>

\* every position of the new array, 0-based
AllPositions == {j - 1 : j \in 1..Len(newValue.v)}

\* C26 (order of array children): the children of an array diff are, first,
\* the nodes derived from the old elements in old-index order (each a matched
\* node or a Removed node), and then one Added node for each unclaimed new
\* index in ascending new-index order; no Added node precedes a node derived
\* from an old element.
C26_ChildrenOrder ==
  (oldValue.t = "array" /\ newValue.t = "array" /\ ~isEqual(oldValue, newValue)) =>
    /\ call = "diff" =>
         LegacyInOrder(ret, FirstPass(oldValue.v, newValue.v, options,
                                      Len(oldValue.v)).matched)
    /\ call = "engineDiff" =>
         LegacyInOrder(ret, IF Len(oldValue.v) = Len(newValue.v) THEN AllPositions
                            ELSE EngineFirstPass(oldValue.v, newValue.v, options,
                                                 Len(oldValue.v)).matched)
    /\ call = "diffRaw" =>
         ChildrenInOrder(ret, AlignFirstPass(oldValue.v, newValue.v, options, <<>>,
                                             Len(oldValue.v)).matched)

\* [1] against [5, 1, 5]: the matched element first, then the added 5 of the
\* new index 0 and the added 5 of the new index 2
C26_Witness ==
  /\ call = "diffRaw"
  /\ oldValue = Arr(<<Num(1)>>)
  /\ newValue = Arr(<<Num(5), Num(1), Num(5)>>)
  /\ Len(ret.children) = 3
  /\ ret.children[1].type = "unchanged"
  /\ ret.children[2].type = "added"
  /\ ret.children[2].path = <<"0">>
  /\ ret.children[3].type = "added"
  /\ ret.children[3].path = <<"2">>

\* one of the two values is an array and the other a plain object
ArrayVersusObject(a, b) ==
  \/ a.t = "array" /\ b.t = "object"
  \/ a.t = "object" /\ b.t = "array"

\* the typed node is one Changed node over the two values, without children
OpaqueChange(node, old, new) ==
  /\ node.type = "changed"
  /\ node.oldValue = old
  /\ node.newValue = new
  /\ ~hasChildren(node)

\* the keys of both inputs under which an array meets a plain object
MixedKeys ==
  IF oldValue.t = "object" /\ newValue.t = "object"
  THEN {k \in KeySet(oldValue) \cap KeySet(newValue) :
          ArrayVersusObject(getKey(oldValue, k), getKey(newValue, k))}
  ELSE {}

\* C27 (array versus object): comparing an array with a plain object, in
\* either order, at the root or under a key, yields a single Changed node
\* carrying the whole old value and the whole new value, with no children and
\* no key-by-key or index-by-index recursion; the legacy result is the one
\* record { __old, __new } of the two values.
C27_ArrayVersusObject ==
  /\ ArrayVersusObject(oldValue, newValue) =>
       /\ call \in {"diff", "engineDiff"} => ret = DiffChange(oldValue, newValue)
       /\ call = "diffRaw" => OpaqueChange(ret, oldValue, newValue)
  /\ \A k \in MixedKeys :
       /\ call \in {"diff", "engineDiff"} =>
            /\ ret.t = "object"
            /\ hasKey(ret, k)
            /\ getKey(ret, k) = DiffChange(getKey(oldValue, k), getKey(newValue, k))
       /\ call = "diffRaw" =>
            OpaqueChange(ChildFor(ret, k), getKey(oldValue, k), getKey(newValue, k))

\* the kinds of the nodes of a tree, in the shape of the tree
RECURSIVE Kinds(_)
Kinds(node) ==
  [type |-> node.type, path |-> node.path,
   children |-> [i \in 1..Len(node.children) |-> Kinds(node.children[i])]]

\* the options with keysOnly alone, with ignoreValues alone and with both
StructureVariants ==
  {[options EXCEPT !.keysOnly = TRUE, !.ignoreValues = FALSE],
   [options EXCEPT !.keysOnly = FALSE, !.ignoreValues = TRUE],
   [options EXCEPT !.keysOnly = TRUE, !.ignoreValues = TRUE]}

\* C28 (keysOnly and ignoreValues are the same comparison): for all inputs
\* and all other options, the diff computed with keysOnly alone, with
\* ignoreValues alone and with both set assign the same kind to every node
\* and give the same isDiff result; the legacy diff of either engine returns
\* the same result under the three.
C28_SameComparison ==
  structureOnly(options) =>
    \A other \in StructureVariants :
      /\ call = "diffRaw" => Kinds(diffRaw(oldValue, newValue, other)) = Kinds(ret)
      /\ call = "isDiff" => isDiff(oldValue, newValue, other) = ret
      /\ call = "engineDiff" => EngineDiff(oldValue, newValue, other) = ret
      /\ call = "diff" => diff(oldValue, newValue, other) = ret

\* C29 (similarity agrees with equality): for all values a and b,
\* calculateSimilarity(a, b) = 1 if and only if isEqual(a, b); hence an old
\* array element that has an equal element in the new array always reaches
\* the maximum score 1 in findBestMatch, and two values scoring 1 are never
\* reported as Changed.
C29_SimilarityAgreesWithEquality ==
  /\ call = "calculateSimilarity" =>
       (RatEQ(ret, RatOne) <=> isEqual(oldValue, newValue))
  /\ (oldValue.t = "array" /\ newValue.t = "array") =>
       \A i \in 1..Len(oldValue.v) :
         (\E j \in 1..Len(newValue.v) : isEqual(oldValue.v[i], newValue.v[j])) =>
           RatEQ(findBestMatch(oldValue.v[i], newValue.v)[2], RatOne)
  /\ RatEQ(calculateSimilarity(oldValue, newValue), RatOne) =>
       /\ call = "diffRaw" => ret.type # "changed"
       /\ call \in {"diff", "engineDiff"} => ~LegacyHasChange(ret)

\* how often x occurs in the sequence s
Occurrences(s, x) == Cardinality({i \in 1..Len(s) : s[i] = x})

\* the legacy entry of an old item that claimed no new element
RemovedEntry(entry, item) == entry = DiffChange(item, Undef)

\* the new element an entry of the legacy result stands for: the old item
\* itself when the entry reports no change, the __new side otherwise
NewSideOf(entry, item) ==
  IF IsChangeRecord(entry) THEN getKey(entry, "__new") ELSE item

\* the places of the old items that were matched, in a legacy result
MatchedPlaces(result, old) ==
  {i \in 1..Len(old) : ~RemovedEntry(result[i], old[i])}

\* the new elements a legacy result accounts for: those of the matched old
\* items and then those of the added entries
LegacyNewSides(result, old) ==
  LET places == SelectSeq([i \in 1..Len(old) |-> i],
                          LAMBDA i : ~RemovedEntry(result[i], old[i]))
  IN [k \in 1..Len(places) |-> NewSideOf(result[places[k]], old[places[k]])]
     \o [k \in 1..(Len(result) - Len(old)) |->
           getKey(result[Len(old) + k], "__new")]

\* conservation in a legacy result
LegacyConserved(result) ==
  LET old == oldValue.v
      new == newValue.v
  IN /\ result.t = "array"
     /\ Len(result.v) >= Len(old)
     /\ \A i \in 1..Len(old) : FromOldItem(result.v[i], old[i])
     /\ \A k \in (Len(old) + 1)..Len(result.v) :
          /\ IsChangeRecord(result.v[k])
          /\ getKey(result.v[k], "__old") = Undef
     /\ Len(LegacyNewSides(result.v, old)) = Len(new)
     /\ \A j \in 1..Len(new) :
          Occurrences(LegacyNewSides(result.v, old), new[j]) = Occurrences(new, new[j])
     /\ Len(result.v) =
          Len(old) + Len(new) - Cardinality(MatchedPlaces(result.v, old))

\* conservation after each step of a first pass: one entry per old item so
\* far, and as many claimed positions as entries that are matches
PassConserved(pass, n) ==
  /\ Len(pass.result) = n
  /\ pass.matched \subseteq AllPositions
  /\ Cardinality(pass.matched) =
       Cardinality(MatchedPlaces(pass.result, SubSeq(oldValue.v, 1, n)))

\* conservation in the children of the typed array node
ChildrenConserved(node) ==
  LET old == oldValue.v
      new == newValue.v
      kids == node.children
      sides == SelectSeq(kids, LAMBDA c : c.type # "removed")
      matches == {i \in 1..Len(old) : kids[i].type # "removed"}
  IN /\ Len(kids) >= Len(old)
     /\ \A i \in 1..Len(old) :
          kids[i].type # "added" /\ kids[i].oldValue = old[i]
     /\ \A k \in (Len(old) + 1)..Len(kids) : kids[k].type = "added"
     /\ Len(sides) = Len(new)
     /\ \A j \in 1..Len(new) :
          Cardinality({k \in 1..Len(sides) : sides[k].newValue = new[j]})
            = Occurrences(new, new[j])
     /\ Len(kids) = Len(old) + Len(new) - Cardinality(matches)

\* C30 (conservation in array alignment): during and after diffArrays every
\* new-array index is claimed by at most one old element; every old element
\* yields exactly one node (a matched node or a Removed node); every new
\* element appears exactly once, either as the new side of a matched node or
\* as an Added node and never both; so the number of children is
\* |old| + |new| minus the number of matches.
C30_Conservation ==
  (oldValue.t = "array" /\ newValue.t = "array" /\ ~isEqual(oldValue, newValue)) =>
    /\ call = "diff" =>
         /\ LegacyConserved(ret)
         /\ \A n \in 0..Len(oldValue.v) :
              PassConserved(FirstPass(oldValue.v, newValue.v, options, n), n)
    /\ call = "engineDiff" =>
         /\ LegacyConserved(ret)
         /\ \A n \in 0..Len(oldValue.v) :
              PassConserved(EngineFirstPass(oldValue.v, newValue.v, options, n), n)
    /\ call = "diffRaw" =>
         /\ ChildrenConserved(ret)
         /\ \A n \in 0..Len(oldValue.v) :
              LET pass == AlignFirstPass(oldValue.v, newValue.v, options, <<>>, n)
              IN /\ Len(pass.result) = n
                 /\ pass.matched \subseteq AllPositions
                 /\ Cardinality(pass.matched) =
                      Cardinality({i \in 1..n : pass.result[i].type # "removed"})

\* [1, 1] against [1, 2]: the first 1 claims the new index 0, the second 1
\* is removed and 2 is added: 2 + 2 - 1 = 3 entries
C30_Witness ==
  /\ call = "diff"
  /\ oldValue = Arr(<<Num(1), Num(1)>>)
  /\ newValue = Arr(<<Num(1), Num(2)>>)
  /\ ret = Arr(<<Undef, DiffChange(Num(1), Undef), DiffChange(Undef, Num(2))>>)
  /\ FirstPass(oldValue.v, newValue.v, options, 2).matched = {0}

====
